---- MODULE Spec2Model ----
(***************************************************************************)
(* A model of the Forty-Fives rules engine (FortyfivesGame, FortyfivesDealer *)
(* and the card strength function).  Cards are card ids 0..51, hands and   *)
(* piles are sequences in list order, seats are 0..3.  Python's None is    *)
(* None (-1) for integer fields and NoSuit for suit fields.                 *)
(***************************************************************************)
EXTENDS Integers, Sequences, FiniteSets, TLC

VARIABLES
    phase, dealer_id, current_player_id, auction_starting_player,
    bids, highest_bidder, highest_bid, passed, trump_suit,
    hands, deck, pot, discard_pile,
    current_trick, trick_lead_suit, trick_winner, tricks_won, trick_count,
    trick_starter, highest_trump_played, highest_trump_player,
    trick_history, trick_winners, points, hand_points, bid_made,
    last_action,   \* history: the argument of the latest step() call
    last_legal,    \* history: whether it was in get_legal_actions() at the call
    raised,        \* history: the exception the latest step() call raised
    dealer_held,   \* history: the dealer has played Hold in the current hand
    auction_len,   \* history: the number of step() calls of the current hand's auction
    policy         \* the driver's policy for choosing discards and plays

\* the state of the game object
gvars == <<phase, dealer_id, current_player_id, auction_starting_player,
           bids, highest_bidder, highest_bid, passed, trump_suit,
           hands, deck, pot, discard_pile,
           current_trick, trick_lead_suit, trick_winner, tricks_won, trick_count,
           trick_starter, highest_trump_played, highest_trump_player,
           trick_history, trick_winners, points, hand_points, bid_made>>

vars == <<gvars, last_action, last_legal, raised, dealer_held, auction_len, policy>>

-----------------------------------------------------------------------------
\* Bounds of the model.

\* number of outcomes of the dealer's shuffle that are explored
NumShuffles == 2
\* number of driver policies for choosing a discard position and a play
NumPolicies == 1
\* voluntary discards are explored while the discard pile is shorter than this
MaxDiscardPile == 1

-----------------------------------------------------------------------------
\* Program constants.

PHASE_DEAL == 0
PHASE_AUCTION == 1
PHASE_DECLARATION == 2
PHASE_DISCARD == 3
PHASE_GAMEPLAY == 4
PHASE_SCORING == 5

BID_PASS == 0
BID_20 == 1
BID_25 == 2
BID_30 == 3
BID_HOLD == 4

SUIT_SPADES == 0
SUIT_HEARTS == 1
SUIT_DIAMONDS == 2
SUIT_CLUBS == 3

DISCARD_DONE == 16

num_players == 4
num_cards_per_player == 5

None == 0 - 1
NoSuit == "None"

Seats == 0 .. (num_players - 1)

RANKS == <<"2", "3", "4", "5", "6", "7", "8", "9", "T", "J", "Q", "K", "A">>
SUITS == <<"S", "H", "D", "C">>

\* BID_VALUES[bid] for the three bid actions
BID_VALUES(b) == CASE b = BID_20 -> 20 [] b = BID_25 -> 25 [] b = BID_30 -> 30 [] OTHER -> None

\* An integer stored where a suit string is expected (trump_suit = action):
\* Python compares it unequal to every suit string, so it is kept as its digits.
IntRepr == <<"0", "1", "2", "3", "4", "5", "6", "7", "8", "9", "10", "11", "12",
             "13", "14", "15", "16", "17">>

-----------------------------------------------------------------------------
\* Lists.

Range(s) == {s[i] : i \in 1 .. Len(s)}

\* list.pop(i) / del list[i], i a 0-based position
RemoveAt(s, i) == SubSeq(s, 1, i) \o SubSeq(s, i + 2, Len(s))

\* list.remove(x): drops the first element equal to x
remove(s, x) ==
    LET first == CHOOSE i \in 1 .. Len(s) : s[i] = x /\ \A j \in 1 .. (i - 1) : s[j] # x
    IN  RemoveAt(s, first - 1)

\* list(range(n))
range(n) == [i \in 1 .. n |-> i - 1]

\* [i for i, card in enumerate(hand) if card in S], ascending, from position i on
RECURSIVE SelectIdx(_, _, _)
SelectIdx(hand, S, i) ==
    IF i > Len(hand) THEN <<>>
    ELSE (IF hand[i] \in S THEN <<i - 1>> ELSE <<>>) \o SelectIdx(hand, S, i + 1)

\* sum(self.passed)
NumPassed(p) == Cardinality({s \in Seats : p[s]})

-----------------------------------------------------------------------------
\* Cards (card.py).

rank(c) == RANKS[(c % 13) + 1]
suit(c) == SUITS[(c \div 13) + 1]

is_red_suit(s) == s \in {"H", "D"}

\* card.rank == 'A' and card.suit == 'H'
IsAceOfHearts(c) == rank(c) = "A" /\ suit(c) = "H"

init_deck == [i \in 1 .. 52 |-> i - 1]

-----------------------------------------------------------------------------
\* Dealer (dealer.py).

\* np_random.shuffle(self.deck): outcome k of the shuffle, a permutation of the deck
shuffle(d, k) == [i \in 1 .. Len(d) |-> d[(((2 * k + 1) * (i - 1) + k) % Len(d)) + 1]]

\* deal_cards: one card at a time from the end of the deck, seat 0 first,
\* then three cards to the pot
deal_cards(d, n_players, per_player) ==
    LET n == Len(d)
        dealt == n_players * per_player
    IN  [hands |-> [p \in 0 .. (n_players - 1) |->
                       [r \in 1 .. per_player |-> d[n - (n_players * (r - 1) + p)]]],
         pot   |-> [j \in 1 .. 3 |-> d[n - dealt - (j - 1)]],
         deck  |-> SubSeq(d, 1, n - dealt - 3)]

\* FortyfivesDealer(np_random) followed by deal_cards(num_players, 5)
NewDeal(k) == deal_cards(shuffle(init_deck, k), num_players, num_cards_per_player)

-----------------------------------------------------------------------------
\* Card strength (card.py, get_card_rank).

\* a plain high-card order, Ace high, trumps above the rest
get_card_rank_highcard(card, trump) ==
    (card % 13) + (IF suit(card) = trump THEN 1000 ELSE 800)

\* only the five top trumps rank above the plain suits
get_card_rank_lowtrump(card, trump) ==
    IF rank(card) = "A" /\ suit(card) = "H" THEN 1001
    ELSE IF suit(card) = trump /\ rank(card) \in {"5", "J", "A", "K", "Q"}
         THEN 990 + (card % 13)
    ELSE 880 + (card % 13)

get_card_rank(card, trump) ==
    IF rank(card) = "A" /\ suit(card) = "H" THEN 1001
    ELSE IF suit(card) = trump THEN
        CASE rank(card) = "5" -> 1003
          [] rank(card) = "J" -> 1002
          [] rank(card) = "A" -> 1000
          [] rank(card) = "K" -> 999
          [] rank(card) = "Q" -> 998
          [] OTHER ->
             IF is_red_suit(suit(card)) THEN
                CASE rank(card) = "T" -> 997 [] rank(card) = "9" -> 996
                  [] rank(card) = "8" -> 995 [] rank(card) = "7" -> 994
                  [] rank(card) = "6" -> 993 [] rank(card) = "4" -> 992
                  [] rank(card) = "3" -> 991 [] rank(card) = "2" -> 990
                  [] OTHER -> 989
             ELSE
                CASE rank(card) = "2" -> 997 [] rank(card) = "3" -> 996
                  [] rank(card) = "4" -> 995 [] rank(card) = "6" -> 994
                  [] rank(card) = "7" -> 993 [] rank(card) = "8" -> 992
                  [] rank(card) = "9" -> 991 [] rank(card) = "T" -> 990
                  [] OTHER -> 989
    ELSE IF is_red_suit(suit(card)) THEN
        CASE rank(card) = "K" -> 900 [] rank(card) = "Q" -> 899
          [] rank(card) = "J" -> 898 [] rank(card) = "T" -> 897
          [] rank(card) = "9" -> 896 [] rank(card) = "8" -> 895
          [] rank(card) = "7" -> 894 [] rank(card) = "6" -> 893
          [] rank(card) = "4" -> 892 [] rank(card) = "3" -> 891
          [] rank(card) = "2" -> 890 [] rank(card) = "A" -> 889
          [] OTHER -> 0
    ELSE
        CASE rank(card) = "K" -> 800 [] rank(card) = "Q" -> 799
          [] rank(card) = "J" -> 798 [] rank(card) = "A" -> 797
          [] rank(card) = "2" -> 796 [] rank(card) = "3" -> 795
          [] rank(card) = "4" -> 794 [] rank(card) = "5" -> 793
          [] rank(card) = "6" -> 792 [] rank(card) = "7" -> 791
          [] rank(card) = "8" -> 790 [] rank(card) = "9" -> 789
          [] rank(card) = "T" -> 788
          [] OTHER -> 0

-----------------------------------------------------------------------------
\* Trick resolution (game.py, wins_over and get_trick_winner).

\* card.suit == trump_suit or the card is the Ace of Hearts
is_trump(card, trump) == suit(card) = trump \/ (rank(card) = "A" /\ suit(card) = "H")

\* wins_over without its trump rules: only suit and lead suit decide
wins_over_notrump(card1, card2, trump, lead) ==
    IF card1 = None THEN FALSE
    ELSE IF card2 = None THEN TRUE
    ELSE IF suit(card1) = suit(card2)
         THEN get_card_rank(card1, trump) > get_card_rank(card2, trump)
    ELSE IF suit(card1) = lead /\ suit(card2) # lead THEN TRUE
    ELSE FALSE

\* wins_over(card1, card2, trump_suit), reading self.trick_lead_suit as lead
wins_over(card1, card2, trump, lead) ==
    IF card1 = None THEN FALSE
    ELSE IF card2 = None THEN TRUE
    ELSE IF is_trump(card1, trump) /\ ~is_trump(card2, trump) THEN TRUE
    ELSE IF ~is_trump(card1, trump) /\ is_trump(card2, trump) THEN FALSE
    ELSE IF is_trump(card1, trump) /\ is_trump(card2, trump)
         THEN get_card_rank(card1, trump) > get_card_rank(card2, trump)
    ELSE IF suit(card1) = suit(card2)
         THEN get_card_rank(card1, trump) > get_card_rank(card2, trump)
    ELSE IF suit(card1) = lead /\ suit(card2) # lead THEN TRUE
    ELSE FALSE

\* the loop of get_trick_winner over seats i .. 3, with the running winner
RECURSIVE TrickWinnerFrom(_, _, _, _, _, _)
TrickWinnerFrom(trick, trump, lead, starter_id, winner, i) ==
    IF i >= num_players THEN winner
    ELSE IF i = starter_id \/ trick[i] = None
         THEN TrickWinnerFrom(trick, trump, lead, starter_id, winner, i + 1)
    ELSE IF wins_over(trick[i], trick[winner], trump, lead)
         THEN TrickWinnerFrom(trick, trump, lead, starter_id, i, i + 1)
    ELSE TrickWinnerFrom(trick, trump, lead, starter_id, winner, i + 1)

\* get_trick_winner: the starter is the first seat holding a card in the trick,
\* and the lead suit used is the suit of that seat's card
get_trick_winner(trick, trump, starter) ==
    IF \A i \in Seats : trick[i] = None THEN starter
    ELSE LET starter_id == CHOOSE i \in Seats :
                               trick[i] # None /\ \A j \in 0 .. (i - 1) : trick[j] = None
             lead_suit  == suit(trick[starter_id])
         IN  TrickWinnerFrom(trick, trump, lead_suit, starter_id, starter_id, 0)

-----------------------------------------------------------------------------
\* Legal actions (game.py, get_legal_actions and the four get_legal_*).

\* mutant: a bid equal to the standing bid of 25 is offered again
get_legal_bids_equal ==
    IF passed[current_player_id] THEN <<>>
    ELSE <<BID_PASS>>
         \o (IF highest_bid = None THEN <<BID_20, BID_25, BID_30>>
             ELSE (IF highest_bid <= BID_25 THEN <<BID_25, BID_30>>
                   ELSE IF highest_bid < BID_30 THEN <<BID_30>>
                   ELSE <<>>)
                  \o (IF current_player_id = dealer_id THEN <<BID_HOLD>> ELSE <<>>))

\* mutant: Hold is offered to every seat once a bid stands
get_legal_bids_anyhold ==
    IF passed[current_player_id] THEN <<>>
    ELSE <<BID_PASS>>
         \o (IF highest_bid = None THEN <<BID_20, BID_25, BID_30>>
             ELSE (IF highest_bid < BID_25 THEN <<BID_25, BID_30>>
                   ELSE IF highest_bid < BID_30 THEN <<BID_30>>
                   ELSE <<>>)
                  \o <<BID_HOLD>>)

get_legal_bids ==
    IF passed[current_player_id] THEN <<>>
    ELSE <<BID_PASS>>
         \o (IF highest_bid = None THEN <<BID_20, BID_25, BID_30>>
             ELSE (IF highest_bid < BID_25 THEN <<BID_25, BID_30>>
                   ELSE IF highest_bid < BID_30 THEN <<BID_30>>
                   ELSE <<>>)
                  \o (IF current_player_id = dealer_id THEN <<BID_HOLD>> ELSE <<>>))

get_legal_declarations == <<SUIT_SPADES, SUIT_HEARTS, SUIT_DIAMONDS, SUIT_CLUBS>>

\* mutant: the positions offered run one past the end of the hand
get_legal_discards_offbyone ==
    LET hand_size == Len(hands[current_player_id])
    IN  IF current_player_id = highest_bidder THEN
            IF hand_size > 5 THEN range(hand_size + 1)
            ELSE IF hand_size > 0 THEN range(hand_size + 1) \o <<DISCARD_DONE>>
            ELSE <<DISCARD_DONE>>
        ELSE range(hand_size + 1) \o <<DISCARD_DONE>>

\* mutant: the auction winner may be done while holding more than 5 cards
get_legal_discards_earlydone ==
    LET hand_size == Len(hands[current_player_id])
    IN  IF hand_size > 0 THEN range(hand_size) \o <<DISCARD_DONE>>
        ELSE <<DISCARD_DONE>>

get_legal_discards ==
    LET hand_size == Len(hands[current_player_id])
    IN  IF current_player_id = highest_bidder THEN
            IF hand_size > 5 THEN range(hand_size)
            ELSE IF hand_size > 0 THEN range(hand_size) \o <<DISCARD_DONE>>
            ELSE <<DISCARD_DONE>>
        ELSE range(hand_size) \o <<DISCARD_DONE>>

\* get_legal_plays for a hand, with test_mode the test_strict_suit_following flag
LegalPlays(hand, player, starter, lead, trump, trick, test_mode) ==
    LET IsLead(c)  == suit(c) = lead
        IsTrump(c) == IF test_mode THEN suit(c) = trump ELSE is_trump(c, trump)
        IsHigh(c)  == (suit(c) = trump /\ rank(c) \in {"5", "J"})
                      \/ (~test_mode /\ rank(c) = "A" /\ suit(c) = "H")
        IsLeadOrTrump(c) == IsLead(c) \/ IsTrump(c)
        IsLowTrump(c)    == IsTrump(c) /\ ~IsHigh(c)
        lead_suit_cards == SelectIdx(hand, {c \in Range(hand) : IsLead(c)}, 1)
        trump_cards     == SelectIdx(hand, {c \in Range(hand) : IsTrump(c)}, 1)
        all_cards       == range(Len(hand))
    IN  IF Len(hand) = 0 \/ starter = player THEN all_cards
        ELSE IF lead = trump THEN
            IF trump_cards # <<>> THEN
                LET lead_card == trick[starter]
                    is_high_trump_led ==
                        (suit(lead_card) = trump /\ rank(lead_card) \in {"5", "J"})
                        \/ (~test_mode /\ rank(lead_card) = "A" /\ suit(lead_card) = "H")
                    non_high_trump_indices == SelectIdx(hand, {c \in Range(hand) : IsLowTrump(c)}, 1)
                IN  IF is_high_trump_led THEN trump_cards
                    ELSE IF test_mode THEN
                        (IF non_high_trump_indices # <<>> THEN non_high_trump_indices
                         ELSE all_cards)
                    ELSE all_cards
            ELSE all_cards
        ELSE IF test_mode THEN
            (IF lead_suit_cards # <<>> THEN lead_suit_cards ELSE all_cards)
        ELSE LET legal_plays == SelectIdx(hand, {c \in Range(hand) : IsLeadOrTrump(c)}, 1)
             IN  IF legal_plays = <<>> THEN all_cards ELSE legal_plays

\* mutant: no follow rule, every card of the hand is legal
get_legal_plays_anycard == range(Len(hands[current_player_id]))

\* the strict flag ignored: the normal rules whatever the mode
get_legal_plays_flagoff ==
    LegalPlays(hands[current_player_id], current_player_id, trick_starter,
               trick_lead_suit, trump_suit, current_trick, FALSE)

\* get_legal_plays with test_strict_suit_following set, as the suit-following
\* tests call it
get_legal_plays_strict ==
    LegalPlays(hands[current_player_id], current_player_id, trick_starter,
               trick_lead_suit, trump_suit, current_trick, TRUE)

\* mutant: whenever trump is led a follower holding trumps must play one
get_legal_plays_mustfollow ==
    LET hand   == hands[current_player_id]
        trumps == SelectIdx(hand, {c \in Range(hand) : is_trump(c, trump_suit)}, 1)
    IN  IF /\ Len(hand) # 0
           /\ trick_starter # current_player_id
           /\ trick_lead_suit = trump_suit
           /\ trumps # <<>>
        THEN trumps
        ELSE LegalPlays(hand, current_player_id, trick_starter, trick_lead_suit,
                        trump_suit, current_trick, FALSE)

\* mutant: the trump suit matches the suit of no card
get_legal_plays_notrump ==
    LegalPlays(hands[current_player_id], current_player_id, trick_starter,
               trick_lead_suit, NoSuit, current_trick, FALSE)

get_legal_plays ==
    LegalPlays(hands[current_player_id], current_player_id, trick_starter,
               trick_lead_suit, trump_suit, current_trick, FALSE)

get_legal_actions ==
    LET actions == CASE phase = PHASE_AUCTION     -> get_legal_bids
                     [] phase = PHASE_DECLARATION -> get_legal_declarations
                     [] phase = PHASE_DISCARD     -> get_legal_discards
                     [] phase = PHASE_GAMEPLAY    -> get_legal_plays
                     [] OTHER -> <<>>
        hand_size == Len(hands[current_player_id])
    IN  IF actions = <<>> /\ phase = PHASE_AUCTION THEN <<BID_PASS>>
        ELSE IF actions = <<>> /\ phase = PHASE_DISCARD THEN <<0>>
        ELSE IF actions = <<>> THEN (IF hand_size > 0 THEN range(hand_size) ELSE <<0>>)
        ELSE actions

\* check_game_over: max(self.points.values()) >= 125
check_game_over(pts) == \E s \in Seats : pts[s] >= 125

\* game.is_over as a caller reads it: init_game assigns self.is_over = False,
\* an instance attribute that hides the method is_over(); nothing assigns it
\* again, so the driver's "game_over = env.game.is_over" reads False.
is_over == FALSE

-----------------------------------------------------------------------------
\* The state after FortyfivesGame() (game.py, __init__ and init_game).

EmptyTrick == [s \in Seats |-> None]

InitWith(k) ==
    LET d == NewDeal(k)
    IN  /\ phase = PHASE_AUCTION
        /\ dealer_id = 0
        /\ auction_starting_player = 1
        /\ current_player_id = 1
        /\ bids = [s \in Seats |-> 0]
        /\ highest_bidder = None
        /\ highest_bid = None
        /\ passed = [s \in Seats |-> FALSE]
        /\ trump_suit = NoSuit
        /\ hands = d.hands
        /\ deck = d.deck
        /\ pot = d.pot
        /\ discard_pile = <<>>
        /\ current_trick = EmptyTrick
        /\ trick_lead_suit = NoSuit
        /\ trick_winner = None
        /\ tricks_won = [s \in Seats |-> 0]
        /\ trick_count = 0
        /\ trick_starter = None
        /\ highest_trump_played = None
        /\ highest_trump_player = None
        /\ trick_history = <<>>
        /\ trick_winners = <<>>
        /\ points = [s \in Seats |-> 0]
        /\ hand_points = <<0, 0>>
        /\ bid_made = "absent"
        /\ last_action = None
        /\ last_legal = TRUE
        /\ raised = "none"
        /\ dealer_held = FALSE
        /\ auction_len = 0

Init == /\ \E k \in 1 .. NumShuffles : InitWith(k)
        /\ policy \in 1 .. NumPolicies

-----------------------------------------------------------------------------
\* start_new_hand (game.py): the assignments it makes, for shuffle outcome k.
\* It leaves points, discard_pile, trick_winner, bid_made and the
\* highest-trump fields to its caller.

\* mutant: the new dealer itself is the first seat to act
start_new_hand_dealerfirst(k) ==
    LET d == NewDeal(k)
        new_dealer == (dealer_id + 1) % num_players
    IN  /\ dealer_id' = new_dealer
        /\ hands' = d.hands
        /\ deck' = d.deck
        /\ pot' = d.pot
        /\ auction_starting_player' = (new_dealer + 1) % num_players
        /\ current_player_id' = new_dealer
        /\ phase' = PHASE_AUCTION
        /\ highest_bidder' = None
        /\ highest_bid' = None
        /\ bids' = [s \in Seats |-> None]
        /\ passed' = [s \in Seats |-> FALSE]
        /\ trick_count' = 0
        /\ tricks_won' = [s \in Seats |-> 0]
        /\ trick_history' = <<>>
        /\ trick_winners' = <<>>
        /\ current_trick' = EmptyTrick
        /\ trick_lead_suit' = NoSuit
        /\ trick_starter' = None
        /\ trump_suit' = NoSuit
        /\ hand_points' = <<0, 0>>

\* start_new_hand that keeps the dealer and the trump suit of the last hand
start_new_hand_samedealer(k) ==
    LET d == NewDeal(k)
    IN  /\ dealer_id' = dealer_id
        /\ hands' = d.hands
        /\ deck' = d.deck
        /\ pot' = d.pot
        /\ auction_starting_player' = (dealer_id + 1) % num_players
        /\ current_player_id' = (dealer_id + 1) % num_players
        /\ phase' = PHASE_AUCTION
        /\ highest_bidder' = None
        /\ highest_bid' = None
        /\ bids' = [s \in Seats |-> None]
        /\ passed' = [s \in Seats |-> FALSE]
        /\ trick_count' = 0
        /\ tricks_won' = [s \in Seats |-> 0]
        /\ trick_history' = <<>>
        /\ trick_winners' = <<>>
        /\ current_trick' = EmptyTrick
        /\ trick_lead_suit' = NoSuit
        /\ trick_starter' = None
        /\ trump_suit' = trump_suit
        /\ hand_points' = <<0, 0>>

\* start_new_hand that leaves the tricks won of the last hand in place
start_new_hand_keeptricks(k) ==
    LET d == NewDeal(k)
        new_dealer == (dealer_id + 1) % num_players
    IN  /\ dealer_id' = new_dealer
        /\ hands' = d.hands
        /\ deck' = d.deck
        /\ pot' = d.pot
        /\ auction_starting_player' = (new_dealer + 1) % num_players
        /\ current_player_id' = (new_dealer + 1) % num_players
        /\ phase' = PHASE_AUCTION
        /\ highest_bidder' = None
        /\ highest_bid' = None
        /\ bids' = [s \in Seats |-> None]
        /\ passed' = [s \in Seats |-> FALSE]
        /\ trick_count' = 0
        /\ tricks_won' = tricks_won
        /\ trick_history' = <<>>
        /\ trick_winners' = <<>>
        /\ current_trick' = EmptyTrick
        /\ trick_lead_suit' = NoSuit
        /\ trick_starter' = None
        /\ trump_suit' = NoSuit
        /\ hand_points' = <<0, 0>>

start_new_hand(k) ==
    LET d == NewDeal(k)
        new_dealer == (dealer_id + 1) % num_players
    IN  /\ dealer_id' = new_dealer
        /\ hands' = d.hands
        /\ deck' = d.deck
        /\ pot' = d.pot
        /\ auction_starting_player' = (new_dealer + 1) % num_players
        /\ current_player_id' = (new_dealer + 1) % num_players
        /\ phase' = PHASE_AUCTION
        /\ highest_bidder' = None
        /\ highest_bid' = None
        /\ bids' = [s \in Seats |-> None]
        /\ passed' = [s \in Seats |-> FALSE]
        /\ trick_count' = 0
        /\ tricks_won' = [s \in Seats |-> 0]
        /\ trick_history' = <<>>
        /\ trick_winners' = <<>>
        /\ current_trick' = EmptyTrick
        /\ trick_lead_suit' = NoSuit
        /\ trick_starter' = None
        /\ trump_suit' = NoSuit
        /\ hand_points' = <<0, 0>>

-----------------------------------------------------------------------------
\* process_auction (game.py), with is_bidding_over.

\* mutant: the auction ends with a winner when only two seats have passed
is_bidding_over_early(p, bidder) ==
    \/ (NumPassed(p) = num_players - 2 /\ bidder # None)
    \/ NumPassed(p) = num_players

\* mutant: four passes are not recognised as the end of the auction
is_bidding_over_noallpass(p, bidder) ==
    NumPassed(p) = num_players - 1 /\ bidder # None

is_bidding_over(p, bidder) ==
    \/ (NumPassed(p) = num_players - 1 /\ bidder # None)
    \/ NumPassed(p) = num_players

\* the passed flags, highest bidder, highest bid and bids after the action
auction_passed(action) ==
    IF action = BID_PASS THEN [passed EXCEPT ![current_player_id] = TRUE] ELSE passed

auction_bidder(action) ==
    IF action \in {BID_20, BID_25, BID_30, BID_HOLD} THEN current_player_id
    ELSE highest_bidder

\* mutant: a Hold always falls back to a bid of 20
auction_bid_hold20(action) ==
    IF action \in {BID_20, BID_25, BID_30} THEN action
    ELSE IF action = BID_HOLD THEN BID_20
    ELSE highest_bid

auction_bid(action) ==
    IF action \in {BID_20, BID_25, BID_30} THEN action
    ELSE IF action = BID_HOLD /\ highest_bid = None THEN BID_20
    ELSE highest_bid

auction_bids(action) ==
    IF action \in {BID_20, BID_25, BID_30, BID_HOLD}
    THEN [bids EXCEPT ![current_player_id] = auction_bid(action)]
    ELSE bids

process_auction(action) ==
    LET me == current_player_id
        passed1 == auction_passed(action)
        bidder1 == auction_bidder(action)
    IN  /\ raised' = "none"
        /\ IF is_bidding_over(passed1, bidder1) /\ bidder1 = None
           THEN \* all passed: a new hand is dealt
                /\ \E k \in 1 .. NumShuffles : start_new_hand(k)
                /\ UNCHANGED <<discard_pile, trick_winner, highest_trump_played,
                               highest_trump_player, points, bid_made>>
           ELSE /\ passed' = passed1
                /\ highest_bidder' = bidder1
                /\ highest_bid' = auction_bid(action)
                /\ bids' = auction_bids(action)
                /\ IF is_bidding_over(passed1, bidder1)
                   THEN /\ phase' = PHASE_DECLARATION
                        /\ current_player_id' = bidder1
                   ELSE /\ phase' = phase
                        /\ current_player_id' = (me + 1) % num_players
                /\ UNCHANGED <<dealer_id, auction_starting_player, trump_suit, hands, deck,
                               pot, discard_pile, current_trick, trick_lead_suit,
                               trick_winner, tricks_won, trick_count, trick_starter,
                               highest_trump_played, highest_trump_player, trick_history,
                               trick_winners, points, hand_points, bid_made>>

-----------------------------------------------------------------------------
\* process_declaration (game.py).

\* mutant: the declaration goes straight to Gameplay, skipping the discards
process_declaration_nodiscard(action) ==
    /\ raised' = "none"
    /\ trump_suit' = IntRepr[action + 1]
    /\ IF highest_bidder # None /\ pot # <<>>
       THEN /\ hands' = [hands EXCEPT ![highest_bidder] = @ \o pot]
            /\ pot' = <<>>
       ELSE UNCHANGED <<hands, pot>>
    /\ phase' = PHASE_GAMEPLAY
    /\ current_player_id' = (dealer_id + 1) % num_players
    /\ UNCHANGED <<dealer_id, auction_starting_player, bids, highest_bidder, highest_bid,
                   passed, deck, discard_pile, current_trick, trick_lead_suit,
                   trick_winner, tricks_won, trick_count, trick_starter,
                   highest_trump_played, highest_trump_player, trick_history,
                   trick_winners, points, hand_points, bid_made>>

\* mutant: the auction winner is the first seat to discard
process_declaration_winnerfirst(action) ==
    /\ raised' = "none"
    /\ trump_suit' = IntRepr[action + 1]
    /\ IF highest_bidder # None /\ pot # <<>>
       THEN /\ hands' = [hands EXCEPT ![highest_bidder] = @ \o pot]
            /\ pot' = <<>>
       ELSE UNCHANGED <<hands, pot>>
    /\ phase' = PHASE_DISCARD
    /\ current_player_id' = highest_bidder
    /\ UNCHANGED <<dealer_id, auction_starting_player, bids, highest_bidder, highest_bid,
                   passed, deck, discard_pile, current_trick, trick_lead_suit,
                   trick_winner, tricks_won, trick_count, trick_starter,
                   highest_trump_played, highest_trump_player, trick_history,
                   trick_winners, points, hand_points, bid_made>>

process_declaration(action) ==
    /\ raised' = "none"
    /\ trump_suit' = IntRepr[action + 1]
    /\ IF highest_bidder # None /\ pot # <<>>
       THEN /\ hands' = [hands EXCEPT ![highest_bidder] = @ \o pot]
            /\ pot' = <<>>
       ELSE UNCHANGED <<hands, pot>>
    /\ phase' = PHASE_DISCARD
    /\ current_player_id' = (dealer_id + 1) % num_players
    /\ UNCHANGED <<dealer_id, auction_starting_player, bids, highest_bidder, highest_bid,
                   passed, deck, discard_pile, current_trick, trick_lead_suit,
                   trick_winner, tricks_won, trick_count, trick_starter,
                   highest_trump_played, highest_trump_player, trick_history,
                   trick_winners, points, hand_points, bid_made>>

-----------------------------------------------------------------------------
\* process_discard (game.py), with _replenish_hands.

Min(a, b) == IF a < b THEN a ELSE b

\* new_cards of one seat: n cards popped one at a time from the end of the deck
Popped(dk, n) == [j \in 1 .. n |-> dk[Len(dk) - (j - 1)]]

\* the loop of _replenish_hands over seats p .. 3
RECURSIVE ReplenishFrom(_, _, _)
ReplenishFrom(hs, dk, p) ==
    IF p >= num_players THEN [hands |-> hs, deck |-> dk]
    ELSE LET cards_needed == 5 - Len(hs[p])
             n == IF cards_needed > 0 /\ dk # <<>> THEN Min(cards_needed, Len(dk)) ELSE 0
         IN  ReplenishFrom([hs EXCEPT ![p] = @ \o Popped(dk, n)],
                           SubSeq(dk, 1, Len(dk) - n), p + 1)

\* mutant: the loop over the seats starts at seat 1
_replenish_hands_from1(hs, dk) == ReplenishFrom(hs, dk, 1)

_replenish_hands(hs, dk) == ReplenishFrom(hs, dk, 0)

\* mutant: the auction winner itself leads the first trick
first_trick_starter_winner == highest_bidder

\* the seat that leads the first trick: the seat to the left of the declarer
first_trick_starter == (highest_bidder + 1) % num_players

process_discard(action) ==
    LET me == current_player_id
        hand == hands[me]
        next_player == (me + 1) % num_players
    IN  IF action = DISCARD_DONE THEN
            /\ raised' = "none"
            /\ IF next_player = auction_starting_player
               THEN LET r == _replenish_hands(hands, deck)
                    IN  /\ phase' = PHASE_GAMEPLAY
                        /\ trick_starter' = first_trick_starter
                        /\ current_player_id' = first_trick_starter
                        /\ hands' = r.hands
                        /\ deck' = r.deck
               ELSE /\ current_player_id' = next_player
                    /\ UNCHANGED <<phase, trick_starter, hands, deck>>
            /\ UNCHANGED <<dealer_id, auction_starting_player, bids, highest_bidder,
                           highest_bid, passed, trump_suit, pot, discard_pile,
                           current_trick, trick_lead_suit, trick_winner, tricks_won,
                           trick_count, highest_trump_played, highest_trump_player,
                           trick_history, trick_winners, points, hand_points, bid_made>>
        ELSE IF action >= 0 /\ action < Len(hand) THEN
            LET card == hand[action + 1]
            IN  /\ raised' = "none"
                /\ hands' = [hands EXCEPT ![me] = remove(hand, card)]
                /\ discard_pile' = Append(discard_pile, card)
                /\ UNCHANGED <<phase, dealer_id, current_player_id,
                               auction_starting_player, bids, highest_bidder, highest_bid,
                               passed, trump_suit, deck, pot, current_trick,
                               trick_lead_suit, trick_winner, tricks_won, trick_count,
                               trick_starter, highest_trump_played, highest_trump_player,
                               trick_history, trick_winners, points, hand_points,
                               bid_made>>
        ELSE \* raise ValueError("Invalid discard action")
            /\ raised' = "ValueError"
            /\ UNCHANGED gvars

-----------------------------------------------------------------------------
\* process_play (game.py), with end_trick, end_hand and score_hand.

\* score_hand: the raw hand points <<NS, EW>>
\* score_hand counting tricks only, without the highest-trump bonus
score_hand_nobonus(won, trump_player) ==
    <<(won[0] + won[2]) * 5, (won[1] + won[3]) * 5>>

score_hand(won, trump_player) ==
    LET ns_trick_points == (won[0] + won[2]) * 5
        ew_trick_points == (won[1] + won[3]) * 5
        ns_bonus == IF trump_player # None /\ trump_player % 2 = 0 THEN 5 ELSE 0
        ew_bonus == IF trump_player # None /\ trump_player % 2 # 0 THEN 5 ELSE 0
    IN  <<ns_trick_points + ns_bonus, ew_trick_points + ew_bonus>>

\* score_hand: whether the bidding partnership reached its bid
BidMade(hp, bidder, bid) ==
    IF bidder % 2 = 0 THEN hp[1] >= BID_VALUES(bid) ELSE hp[2] >= BID_VALUES(bid)

\* end_hand without the penalty: both sides always add their raw points
end_hand_nopenalty(pts, hp, bidder, bid, made) ==
    [s \in Seats |-> IF s % 2 = 0 THEN pts[0] + hp[1] ELSE pts[1] + hp[2]]

\* end_hand crediting a made bid with the bid value instead of the raw points
end_hand_bidvalue(pts, hp, bidder, bid, made) ==
    LET ns_game_points == IF bidder % 2 = 0
                          THEN (IF made THEN BID_VALUES(bid) ELSE 0 - BID_VALUES(bid))
                          ELSE hp[1]
        ew_game_points == IF bidder % 2 # 0
                          THEN (IF made THEN BID_VALUES(bid) ELSE 0 - BID_VALUES(bid))
                          ELSE hp[2]
    IN  [s \in Seats |-> IF s % 2 = 0 THEN pts[0] + ns_game_points
                         ELSE pts[1] + ew_game_points]

\* end_hand without the two sync assignments: only seats 0 and 1 are credited
end_hand_nosync(pts, hp, bidder, bid, made) ==
    LET penalised == ~made
        ns_game_points == IF penalised /\ bidder % 2 = 0 THEN 0 - BID_VALUES(bid)
                          ELSE hp[1]
        ew_game_points == IF penalised /\ bidder % 2 # 0 THEN 0 - BID_VALUES(bid)
                          ELSE hp[2]
    IN  [s \in Seats |-> CASE s = 0 -> pts[0] + ns_game_points
                            [] s = 1 -> pts[1] + ew_game_points
                            [] OTHER -> pts[s]]

\* end_hand: the game points after the hand, given the raw hand points
end_hand(pts, hp, bidder, bid, made) ==
    LET bid_team  == IF bidder # None THEN bidder % 2 ELSE None
        bid_value == IF bid # None THEN BID_VALUES(bid) ELSE None
        penalised == bid_team # None /\ bid_value # None /\ ~made
        ns_game_points == IF penalised /\ bid_team = 0 THEN 0 - bid_value ELSE hp[1]
        ew_game_points == IF penalised /\ bid_team # 0 THEN 0 - bid_value ELSE hp[2]
    IN  [s \in Seats |-> IF s % 2 = 0 THEN pts[0] + ns_game_points
                         ELSE pts[1] + ew_game_points]

\* process_play that ends the trick as soon as three cards are on the table
process_play_threecards(action) ==
    LET me == current_player_id
        hand == hands[me]
    IN  IF hand = <<>> THEN
            \* empty hand: the turn moves on and nothing else happens
            /\ raised' = "none"
            /\ current_player_id' = (me + 1) % num_players
            /\ UNCHANGED <<phase, dealer_id, auction_starting_player, bids,
                           highest_bidder, highest_bid, passed, trump_suit, hands, deck,
                           pot, discard_pile, current_trick, trick_lead_suit,
                           trick_winner, tricks_won, trick_count, trick_starter,
                           highest_trump_played, highest_trump_player, trick_history,
                           trick_winners, points, hand_points, bid_made>>
        ELSE IF action >= Len(hand) THEN
            \* hand.pop(action) raises IndexError
            /\ raised' = "IndexError"
            /\ UNCHANGED gvars
        ELSE
            LET card   == hand[action + 1]
                hands1 == [hands EXCEPT ![me] = RemoveAt(hand, action)]
                trick1 == [current_trick EXCEPT ![me] = card]
                lead1  == IF me = trick_starter THEN suit(card) ELSE trick_lead_suit
                higher == is_trump(card, trump_suit)
                          /\ (highest_trump_played = None
                              \/ wins_over(card, highest_trump_played, trump_suit, lead1))
                htc1   == IF higher THEN card ELSE highest_trump_played
                htp1   == IF higher THEN me ELSE highest_trump_player
                played_cards_count == Cardinality({s \in Seats : trick1[s] # None})
            IN  /\ raised' = "none"
                /\ discard_pile' = discard_pile
                /\ IF played_cards_count # num_players - 1 THEN
                       /\ hands' = hands1
                       /\ current_trick' = trick1
                       /\ trick_lead_suit' = lead1
                       /\ highest_trump_played' = htc1
                       /\ highest_trump_player' = htp1
                       /\ current_player_id' = (me + 1) % num_players
                       /\ UNCHANGED <<phase, dealer_id, auction_starting_player, bids,
                                      highest_bidder, highest_bid, passed, trump_suit,
                                      deck, pot, trick_winner, tricks_won, trick_count,
                                      trick_starter, trick_history, trick_winners,
                                      points, hand_points, bid_made>>
                   ELSE
                       \* end_trick
                       LET winner   == get_trick_winner(trick1, trump_suit, trick_starter)
                           won1     == [tricks_won EXCEPT ![winner] = @ + 1]
                           history1 == Append(trick_history, trick1)
                           winners1 == Append(trick_winners, winner)
                           count1   == trick_count + 1
                           hand_over == count1 >= 5 \/ \A s \in Seats : hands1[s] = <<>>
                           hp1      == score_hand(won1, htp1)
                           made1    == BidMade(hp1, highest_bidder, highest_bid)
                           points1  == end_hand(points, hp1, highest_bidder, highest_bid,
                                                made1)
                       IN  /\ trick_winner' = winner
                           /\ IF ~hand_over THEN
                                  /\ hands' = hands1
                                  /\ tricks_won' = won1
                                  /\ trick_history' = history1
                                  /\ trick_winners' = winners1
                                  /\ trick_count' = count1
                                  /\ trick_starter' = winner
                                  /\ current_player_id' = winner
                                  /\ trick_lead_suit' = NoSuit
                                  /\ current_trick' = EmptyTrick
                                  /\ highest_trump_played' = htc1
                                  /\ highest_trump_player' = htp1
                                  /\ UNCHANGED <<phase, dealer_id, auction_starting_player,
                                                 bids, highest_bidder, highest_bid, passed,
                                                 trump_suit, deck, pot, points,
                                                 hand_points, bid_made>>
                              ELSE
                                  \* end_hand, then a new hand unless the game is over
                                  /\ points' = points1
                                  /\ bid_made' = IF made1 THEN "True" ELSE "False"
                                  /\ highest_trump_played' = None
                                  /\ highest_trump_player' = None
                                  /\ IF check_game_over(points1) THEN
                                         /\ hands' = hands1
                                         /\ tricks_won' = won1
                                         /\ trick_history' = history1
                                         /\ trick_winners' = winners1
                                         /\ trick_count' = count1
                                         /\ trick_starter' = winner
                                         /\ current_player_id' = winner
                                         /\ trick_lead_suit' = NoSuit
                                         /\ current_trick' = EmptyTrick
                                         /\ hand_points' = hp1
                                         /\ UNCHANGED <<phase, dealer_id,
                                                        auction_starting_player, bids,
                                                        highest_bidder, highest_bid,
                                                        passed, trump_suit, deck, pot>>
                                     ELSE \E k \in 1 .. NumShuffles : start_new_hand(k)

\* process_play in which every card played sets the lead suit
process_play_leadeachcard(action) ==
    LET me == current_player_id
        hand == hands[me]
    IN  IF hand = <<>> THEN
            \* empty hand: the turn moves on and nothing else happens
            /\ raised' = "none"
            /\ current_player_id' = (me + 1) % num_players
            /\ UNCHANGED <<phase, dealer_id, auction_starting_player, bids,
                           highest_bidder, highest_bid, passed, trump_suit, hands, deck,
                           pot, discard_pile, current_trick, trick_lead_suit,
                           trick_winner, tricks_won, trick_count, trick_starter,
                           highest_trump_played, highest_trump_player, trick_history,
                           trick_winners, points, hand_points, bid_made>>
        ELSE IF action >= Len(hand) THEN
            \* hand.pop(action) raises IndexError
            /\ raised' = "IndexError"
            /\ UNCHANGED gvars
        ELSE
            LET card   == hand[action + 1]
                hands1 == [hands EXCEPT ![me] = RemoveAt(hand, action)]
                trick1 == [current_trick EXCEPT ![me] = card]
                lead1  == suit(card)
                higher == is_trump(card, trump_suit)
                          /\ (highest_trump_played = None
                              \/ wins_over(card, highest_trump_played, trump_suit, lead1))
                htc1   == IF higher THEN card ELSE highest_trump_played
                htp1   == IF higher THEN me ELSE highest_trump_player
                played_cards_count == Cardinality({s \in Seats : trick1[s] # None})
            IN  /\ raised' = "none"
                /\ discard_pile' = discard_pile
                /\ IF played_cards_count # num_players THEN
                       /\ hands' = hands1
                       /\ current_trick' = trick1
                       /\ trick_lead_suit' = lead1
                       /\ highest_trump_played' = htc1
                       /\ highest_trump_player' = htp1
                       /\ current_player_id' = (me + 1) % num_players
                       /\ UNCHANGED <<phase, dealer_id, auction_starting_player, bids,
                                      highest_bidder, highest_bid, passed, trump_suit,
                                      deck, pot, trick_winner, tricks_won, trick_count,
                                      trick_starter, trick_history, trick_winners,
                                      points, hand_points, bid_made>>
                   ELSE
                       \* end_trick
                       LET winner   == get_trick_winner(trick1, trump_suit, trick_starter)
                           won1     == [tricks_won EXCEPT ![winner] = @ + 1]
                           history1 == Append(trick_history, trick1)
                           winners1 == Append(trick_winners, winner)
                           count1   == trick_count + 1
                           hand_over == count1 >= 5 \/ \A s \in Seats : hands1[s] = <<>>
                           hp1      == score_hand(won1, htp1)
                           made1    == BidMade(hp1, highest_bidder, highest_bid)
                           points1  == end_hand(points, hp1, highest_bidder, highest_bid,
                                                made1)
                       IN  /\ trick_winner' = winner
                           /\ IF ~hand_over THEN
                                  /\ hands' = hands1
                                  /\ tricks_won' = won1
                                  /\ trick_history' = history1
                                  /\ trick_winners' = winners1
                                  /\ trick_count' = count1
                                  /\ trick_starter' = winner
                                  /\ current_player_id' = winner
                                  /\ trick_lead_suit' = NoSuit
                                  /\ current_trick' = EmptyTrick
                                  /\ highest_trump_played' = htc1
                                  /\ highest_trump_player' = htp1
                                  /\ UNCHANGED <<phase, dealer_id, auction_starting_player,
                                                 bids, highest_bidder, highest_bid, passed,
                                                 trump_suit, deck, pot, points,
                                                 hand_points, bid_made>>
                              ELSE
                                  \* end_hand, then a new hand unless the game is over
                                  /\ points' = points1
                                  /\ bid_made' = IF made1 THEN "True" ELSE "False"
                                  /\ highest_trump_played' = None
                                  /\ highest_trump_player' = None
                                  /\ IF check_game_over(points1) THEN
                                         /\ hands' = hands1
                                         /\ tricks_won' = won1
                                         /\ trick_history' = history1
                                         /\ trick_winners' = winners1
                                         /\ trick_count' = count1
                                         /\ trick_starter' = winner
                                         /\ current_player_id' = winner
                                         /\ trick_lead_suit' = NoSuit
                                         /\ current_trick' = EmptyTrick
                                         /\ hand_points' = hp1
                                         /\ UNCHANGED <<phase, dealer_id,
                                                        auction_starting_player, bids,
                                                        highest_bidder, highest_bid,
                                                        passed, trump_suit, deck, pot>>
                                     ELSE \E k \in 1 .. NumShuffles : start_new_hand(k)

\* process_play where a player with an empty hand has the hand scored again
process_play_rescore(action) ==
    LET me == current_player_id
        hand == hands[me]
    IN  IF hand = <<>> THEN
            \* empty hand: the turn moves on and the hand is scored again
            /\ raised' = "none"
            /\ current_player_id' = (me + 1) % num_players
            /\ points' = end_hand(points, hand_points, highest_bidder, highest_bid,
                                  bid_made = "True")
            /\ UNCHANGED <<phase, dealer_id, auction_starting_player, bids,
                           highest_bidder, highest_bid, passed, trump_suit, hands, deck,
                           pot, discard_pile, current_trick, trick_lead_suit,
                           trick_winner, tricks_won, trick_count, trick_starter,
                           highest_trump_played, highest_trump_player, trick_history,
                           trick_winners, hand_points, bid_made>>
        ELSE IF action >= Len(hand) THEN
            \* hand.pop(action) raises IndexError
            /\ raised' = "IndexError"
            /\ UNCHANGED gvars
        ELSE
            LET card   == hand[action + 1]
                hands1 == [hands EXCEPT ![me] = RemoveAt(hand, action)]
                trick1 == [current_trick EXCEPT ![me] = card]
                lead1  == IF me = trick_starter THEN suit(card) ELSE trick_lead_suit
                higher == is_trump(card, trump_suit)
                          /\ (highest_trump_played = None
                              \/ wins_over(card, highest_trump_played, trump_suit, lead1))
                htc1   == IF higher THEN card ELSE highest_trump_played
                htp1   == IF higher THEN me ELSE highest_trump_player
                played_cards_count == Cardinality({s \in Seats : trick1[s] # None})
            IN  /\ raised' = "none"
                /\ discard_pile' = discard_pile
                /\ IF played_cards_count # num_players THEN
                       /\ hands' = hands1
                       /\ current_trick' = trick1
                       /\ trick_lead_suit' = lead1
                       /\ highest_trump_played' = htc1
                       /\ highest_trump_player' = htp1
                       /\ current_player_id' = (me + 1) % num_players
                       /\ UNCHANGED <<phase, dealer_id, auction_starting_player, bids,
                                      highest_bidder, highest_bid, passed, trump_suit,
                                      deck, pot, trick_winner, tricks_won, trick_count,
                                      trick_starter, trick_history, trick_winners,
                                      points, hand_points, bid_made>>
                   ELSE
                       \* end_trick
                       LET winner   == get_trick_winner(trick1, trump_suit, trick_starter)
                           won1     == [tricks_won EXCEPT ![winner] = @ + 1]
                           history1 == Append(trick_history, trick1)
                           winners1 == Append(trick_winners, winner)
                           count1   == trick_count + 1
                           hand_over == count1 >= 5 \/ \A s \in Seats : hands1[s] = <<>>
                           hp1      == score_hand(won1, htp1)
                           made1    == BidMade(hp1, highest_bidder, highest_bid)
                           points1  == end_hand(points, hp1, highest_bidder, highest_bid,
                                                made1)
                       IN  /\ trick_winner' = winner
                           /\ IF ~hand_over THEN
                                  /\ hands' = hands1
                                  /\ tricks_won' = won1
                                  /\ trick_history' = history1
                                  /\ trick_winners' = winners1
                                  /\ trick_count' = count1
                                  /\ trick_starter' = winner
                                  /\ current_player_id' = winner
                                  /\ trick_lead_suit' = NoSuit
                                  /\ current_trick' = EmptyTrick
                                  /\ highest_trump_played' = htc1
                                  /\ highest_trump_player' = htp1
                                  /\ UNCHANGED <<phase, dealer_id, auction_starting_player,
                                                 bids, highest_bidder, highest_bid, passed,
                                                 trump_suit, deck, pot, points,
                                                 hand_points, bid_made>>
                              ELSE
                                  \* end_hand, then a new hand unless the game is over
                                  /\ points' = points1
                                  /\ bid_made' = IF made1 THEN "True" ELSE "False"
                                  /\ highest_trump_played' = None
                                  /\ highest_trump_player' = None
                                  /\ IF check_game_over(points1) THEN
                                         /\ hands' = hands1
                                         /\ tricks_won' = won1
                                         /\ trick_history' = history1
                                         /\ trick_winners' = winners1
                                         /\ trick_count' = count1
                                         /\ trick_starter' = winner
                                         /\ current_player_id' = winner
                                         /\ trick_lead_suit' = NoSuit
                                         /\ current_trick' = EmptyTrick
                                         /\ hand_points' = hp1
                                         /\ UNCHANGED <<phase, dealer_id,
                                                        auction_starting_player, bids,
                                                        highest_bidder, highest_bid,
                                                        passed, trump_suit, deck, pot>>
                                     ELSE \E k \in 1 .. NumShuffles : start_new_hand(k)

process_play(action) ==
    LET me == current_player_id
        hand == hands[me]
    IN  IF hand = <<>> THEN
            \* empty hand: the turn moves on and nothing else happens
            /\ raised' = "none"
            /\ current_player_id' = (me + 1) % num_players
            /\ UNCHANGED <<phase, dealer_id, auction_starting_player, bids,
                           highest_bidder, highest_bid, passed, trump_suit, hands, deck,
                           pot, discard_pile, current_trick, trick_lead_suit,
                           trick_winner, tricks_won, trick_count, trick_starter,
                           highest_trump_played, highest_trump_player, trick_history,
                           trick_winners, points, hand_points, bid_made>>
        ELSE IF action >= Len(hand) THEN
            \* hand.pop(action) raises IndexError
            /\ raised' = "IndexError"
            /\ UNCHANGED gvars
        ELSE
            LET card   == hand[action + 1]
                hands1 == [hands EXCEPT ![me] = RemoveAt(hand, action)]
                trick1 == [current_trick EXCEPT ![me] = card]
                lead1  == IF me = trick_starter THEN suit(card) ELSE trick_lead_suit
                higher == is_trump(card, trump_suit)
                          /\ (highest_trump_played = None
                              \/ wins_over(card, highest_trump_played, trump_suit, lead1))
                htc1   == IF higher THEN card ELSE highest_trump_played
                htp1   == IF higher THEN me ELSE highest_trump_player
                played_cards_count == Cardinality({s \in Seats : trick1[s] # None})
            IN  /\ raised' = "none"
                /\ discard_pile' = discard_pile
                /\ IF played_cards_count # num_players THEN
                       /\ hands' = hands1
                       /\ current_trick' = trick1
                       /\ trick_lead_suit' = lead1
                       /\ highest_trump_played' = htc1
                       /\ highest_trump_player' = htp1
                       /\ current_player_id' = (me + 1) % num_players
                       /\ UNCHANGED <<phase, dealer_id, auction_starting_player, bids,
                                      highest_bidder, highest_bid, passed, trump_suit,
                                      deck, pot, trick_winner, tricks_won, trick_count,
                                      trick_starter, trick_history, trick_winners,
                                      points, hand_points, bid_made>>
                   ELSE
                       \* end_trick
                       LET winner   == get_trick_winner(trick1, trump_suit, trick_starter)
                           won1     == [tricks_won EXCEPT ![winner] = @ + 1]
                           history1 == Append(trick_history, trick1)
                           winners1 == Append(trick_winners, winner)
                           count1   == trick_count + 1
                           hand_over == count1 >= 5 \/ \A s \in Seats : hands1[s] = <<>>
                           hp1      == score_hand(won1, htp1)
                           made1    == BidMade(hp1, highest_bidder, highest_bid)
                           points1  == end_hand(points, hp1, highest_bidder, highest_bid,
                                                made1)
                       IN  /\ trick_winner' = winner
                           /\ IF ~hand_over THEN
                                  /\ hands' = hands1
                                  /\ tricks_won' = won1
                                  /\ trick_history' = history1
                                  /\ trick_winners' = winners1
                                  /\ trick_count' = count1
                                  /\ trick_starter' = winner
                                  /\ current_player_id' = winner
                                  /\ trick_lead_suit' = NoSuit
                                  /\ current_trick' = EmptyTrick
                                  /\ highest_trump_played' = htc1
                                  /\ highest_trump_player' = htp1
                                  /\ UNCHANGED <<phase, dealer_id, auction_starting_player,
                                                 bids, highest_bidder, highest_bid, passed,
                                                 trump_suit, deck, pot, points,
                                                 hand_points, bid_made>>
                              ELSE
                                  \* end_hand, then a new hand unless the game is over
                                  /\ points' = points1
                                  /\ bid_made' = IF made1 THEN "True" ELSE "False"
                                  /\ highest_trump_played' = None
                                  /\ highest_trump_player' = None
                                  /\ IF check_game_over(points1) THEN
                                         /\ hands' = hands1
                                         /\ tricks_won' = won1
                                         /\ trick_history' = history1
                                         /\ trick_winners' = winners1
                                         /\ trick_count' = count1
                                         /\ trick_starter' = winner
                                         /\ current_player_id' = winner
                                         /\ trick_lead_suit' = NoSuit
                                         /\ current_trick' = EmptyTrick
                                         /\ hand_points' = hp1
                                         /\ UNCHANGED <<phase, dealer_id,
                                                        auction_starting_player, bids,
                                                        highest_bidder, highest_bid,
                                                        passed, trump_suit, deck, pot>>
                                     ELSE \E k \in 1 .. NumShuffles : start_new_hand(k)

-----------------------------------------------------------------------------
\* step (game.py) and the driver that calls it.

step(action) ==
    /\ last_action' = action
    /\ last_legal' = (action \in Range(get_legal_actions))
    /\ policy' = policy
    /\ CASE phase = PHASE_AUCTION     -> process_auction(action)
         [] phase = PHASE_DECLARATION -> process_declaration(action)
         [] phase = PHASE_DISCARD     -> process_discard(action)
         [] phase = PHASE_GAMEPLAY    -> process_play(action)
         [] OTHER -> raised' = "none" /\ UNCHANGED gvars
    /\ dealer_held' = IF dealer_id' # dealer_id THEN FALSE
                      ELSE dealer_held \/ (phase = PHASE_AUCTION /\ action = BID_HOLD
                                           /\ current_player_id = dealer_id)
    /\ auction_len' = IF dealer_id' # dealer_id THEN 0
                      ELSE IF phase = PHASE_AUCTION THEN auction_len + 1
                      ELSE auction_len

\* The driver loop (examples/fortyfives_random.py): while the game is not over it
\* picks one of state['legal_actions'] and calls step.  The driver is explored
\* through the redeals and the first scored hand of a game, up to the deal of
\* the hand that follows it.
Running == ~check_game_over(points) /\ bid_made = "absent"

LegalSet == Range(get_legal_actions)

\* policy p picks from a non-empty list
PolicyPick(list, p) == list[((p - 1) % Len(list)) + 1]

\* The discards the driver is explored with: 'done' whenever it is legal, and a
\* discard at the position the policy picks when the seat has to discard or
\* the discard pile is still short.
DiscardChoices ==
    LET positions == range(Len(hands[current_player_id]))
    IN  {a \in LegalSet :
            \/ a = DISCARD_DONE
            \/ /\ positions # <<>>
               /\ a = PolicyPick(positions, policy)
               /\ (DISCARD_DONE \notin LegalSet \/ Len(discard_pile) < MaxDiscardPile)}

\* the play the driver is explored with: the legal play the policy picks
PlayChoices == {PolicyPick(get_legal_actions, policy)}

AuctionStep ==
    /\ Running /\ phase = PHASE_AUCTION
    /\ \E a \in LegalSet : step(a)

DeclarationStep ==
    /\ Running /\ phase = PHASE_DECLARATION
    /\ \E a \in LegalSet : step(a)

DiscardStep ==
    /\ Running /\ phase = PHASE_DISCARD
    /\ \E a \in DiscardChoices : step(a)

PlayStep ==
    /\ Running /\ phase = PHASE_GAMEPLAY
    /\ \E a \in PlayChoices : step(a)

Next == AuctionStep \/ DeclarationStep \/ DiscardStep \/ PlayStep

Spec == Init /\ [][Next]_vars

-----------------------------------------------------------------------------
\* A driver that does not consult get_legal_actions: it may call step with an
\* action that is not legal.  The run is explored up to the first such call.

\* the actions tried when they are not legal
ActionSample == {BID_20, BID_HOLD, 7, DISCARD_DONE}

DriverChoices ==
    CASE phase = PHASE_DISCARD  -> DiscardChoices
      [] phase = PHASE_GAMEPLAY -> PlayChoices
      [] OTHER -> LegalSet

AnyStep ==
    /\ Running /\ last_legal
    /\ \E a \in DriverChoices \cup (ActionSample \ LegalSet) : step(a)

NextAny == AnyStep

SpecAny == Init /\ [][NextAny]_vars

-----------------------------------------------------------------------------
\* A driver that explores the Discard phase: in the auction a seat passes or
\* bids 30, the winner declares the suit its policy picks, and every seat
\* discards at the position its policy picks as many times as it likes before
\* it signals 'done'.  The run is explored up to the start of Gameplay.

BidOrPass == LegalSet \cap {BID_PASS, BID_30}

DiscardOrDone ==
    LET positions == range(Len(hands[current_player_id]))
    IN  {a \in LegalSet :
            \/ a = DISCARD_DONE
            \/ (positions # <<>> /\ a = PolicyPick(positions, policy))}

BidOrPassStep ==
    /\ ~check_game_over(points) /\ phase = PHASE_AUCTION
    /\ \E a \in BidOrPass : step(a)

PolicyDeclarationStep ==
    /\ phase = PHASE_DECLARATION
    /\ step(PolicyPick(get_legal_actions, policy))

DiscardOrDoneStep ==
    /\ phase = PHASE_DISCARD
    /\ \E a \in DiscardOrDone : step(a)

NextDiscard == BidOrPassStep \/ PolicyDeclarationStep \/ DiscardOrDoneStep

SpecDiscard == Init /\ [][NextDiscard]_vars

-----------------------------------------------------------------------------
\* Gameplay with a suit as trump.  The tests put a dealt game into Gameplay by
\* assigning its fields (tests/test_fortyfives_game.py, test_high_trump_reneging):
\* trump_suit is one of the suit strings and a seat is about to lead.  The
\* first trick is explored with every legal play, the later tricks with the
\* play the policy picks, up to the deal of the next hand.

\* a further outcome of the shuffle: outcome k with the Ace of Hearts exchanged
\* with the card that is dealt first to the given seat (None: outcome k itself)
shuffle_ace(d, k, seat) ==
    LET sh  == shuffle(d, k)
        ace == CHOOSE i \in 1 .. Len(sh) : IsAceOfHearts(sh[i])
        to  == Len(sh) - seat
    IN  IF seat = None THEN sh
        ELSE [i \in 1 .. Len(sh) |->
                 IF i = ace THEN sh[to] ELSE IF i = to THEN sh[ace] ELSE sh[i]]

InitPlay(k, ace_seat, trump, leader) ==
    LET d == deal_cards(shuffle_ace(init_deck, k, ace_seat), num_players,
                        num_cards_per_player)
        winner == (leader + num_players - 1) % num_players
    IN  /\ phase = PHASE_GAMEPLAY
        /\ dealer_id = 0
        /\ auction_starting_player = 1
        /\ current_player_id = leader
        /\ bids = [s \in Seats |-> IF s = winner THEN BID_20 ELSE 0]
        /\ highest_bidder = winner
        /\ highest_bid = BID_20
        /\ passed = [s \in Seats |-> s # winner]
        /\ trump_suit = trump
        /\ hands = d.hands
        /\ deck = d.deck
        /\ pot = d.pot
        /\ discard_pile = <<>>
        /\ current_trick = EmptyTrick
        /\ trick_lead_suit = NoSuit
        /\ trick_winner = None
        /\ tricks_won = [s \in Seats |-> 0]
        /\ trick_count = 0
        /\ trick_starter = leader
        /\ highest_trump_played = None
        /\ highest_trump_player = None
        /\ trick_history = <<>>
        /\ trick_winners = <<>>
        /\ points = [s \in Seats |-> 0]
        /\ hand_points = <<0, 0>>
        /\ bid_made = "absent"
        /\ last_action = None
        /\ last_legal = TRUE
        /\ raised = "none"
        /\ dealer_held = FALSE
        /\ auction_len = 0

InitGameplay ==
    /\ \E k \in 1 .. NumShuffles, ace_seat \in Seats \cup {None},
          trump \in Range(SUITS), leader \in Seats :
           InitPlay(k, ace_seat, trump, leader)
    /\ policy \in 1 .. NumPolicies

FirstTrickStep ==
    /\ phase = PHASE_GAMEPLAY /\ trick_count = 0
    /\ \E a \in LegalSet : step(a)

LaterTrickStep ==
    /\ phase = PHASE_GAMEPLAY /\ trick_count > 0 /\ bid_made = "absent"
    /\ \E a \in PlayChoices : step(a)

NextPlay == FirstTrickStep \/ LaterTrickStep

SpecPlay == InitGameplay /\ [][NextPlay]_vars

-----------------------------------------------------------------------------
\* Properties.

\* every card held anywhere in the game state, with repetitions
RECURSIVE Flatten(_)
Flatten(ss) == IF ss = <<>> THEN <<>> ELSE Head(ss) \o Flatten(Tail(ss))

TrickCards(trick) == SelectSeq([i \in 1 .. num_players |-> trick[i - 1]],
                               LAMBDA c : c # None)

AllCards ==
    deck \o hands[0] \o hands[1] \o hands[2] \o hands[3] \o pot \o discard_pile
    \o TrickCards(current_trick)
    \o Flatten([i \in 1 .. Len(trick_history) |-> TrickCards(trick_history[i])])

\* C1: card conservation.  In every state reachable through step(), the deck,
\* the four hands, the kitty, the discard pile, the current trick and the
\* trick history together hold each of the 52 cards exactly once.
C1_CardConservation == Len(AllCards) = 52 /\ Range(AllCards) = 0 .. 51

\* C2: a step() whose action is not in get_legal_actions() raises an error
\* and leaves every field of the game unchanged.
C2_IllegalActionRejected ==
    [][(~last_legal') => (raised' # "none" /\ UNCHANGED gvars)]_vars

\* C3: while the game is not over get_legal_actions() is non-empty, and in the
\* Discard and Gameplay phases every legal action is a position of the acting
\* seat's hand or (Discard only) the done sentinel.
C3_LegalActionsValid ==
    ~check_game_over(points) =>
        /\ get_legal_actions # <<>>
        /\ phase \in {PHASE_DISCARD, PHASE_GAMEPLAY} =>
              \A a \in Range(get_legal_actions) :
                  \/ (a >= 0 /\ a < Len(hands[current_player_id]))
                  \/ (phase = PHASE_DISCARD /\ a = DISCARD_DONE)

\* a follower in Gameplay whose legal plays are fewer than its cards
C3_Witness ==
    /\ phase = PHASE_GAMEPLAY
    /\ current_player_id # trick_starter
    /\ get_legal_actions # <<>>
    /\ Len(get_legal_actions) < Len(hands[current_player_id])

\* C4: the phase changes only along Auction -> Declaration -> Discard ->
\* Gameplay -> Auction, and is never Deal or Scoring between two steps.
C4_PhaseOrder ==
    /\ [](phase \notin {PHASE_DEAL, PHASE_SCORING})
    /\ [][phase' # phase =>
            <<phase, phase'>> \in {<<PHASE_AUCTION, PHASE_DECLARATION>>,
                                   <<PHASE_DECLARATION, PHASE_DISCARD>>,
                                   <<PHASE_DISCARD, PHASE_GAMEPLAY>>,
                                   <<PHASE_GAMEPLAY, PHASE_AUCTION>>}]_vars

\* the auction of the hand that follows a scored hand
C4_Witness == phase = PHASE_AUCTION /\ bid_made # "absent" /\ Len(discard_pile) >= 3

\* C5: for a non-passed acting seat in the Auction the legal actions are
\* exactly Pass, the bids of a value above the standing bid (all three when
\* none stands), and Hold iff the seat is the dealer and a bid stands.
C5_LegalBids ==
    (phase = PHASE_AUCTION /\ ~passed[current_player_id]) =>
        Range(get_legal_actions) =
            {BID_PASS}
            \cup {b \in {BID_20, BID_25, BID_30} :
                    highest_bid = None \/ BID_VALUES(b) > BID_VALUES(highest_bid)}
            \cup {h \in {BID_HOLD} : current_player_id = dealer_id /\ highest_bid # None}

\* the dealer to act, not passed, over a standing bid of 25
C5_Witness ==
    /\ phase = PHASE_AUCTION
    /\ current_player_id = dealer_id
    /\ ~passed[current_player_id]
    /\ highest_bid = BID_25

\* C6: Hold is offered only to the dealer and only when a bid has been made in
\* the current auction; the non-passed dealer is offered it whenever a bid stands.
C6_HoldOnlyDealer ==
    phase = PHASE_AUCTION =>
        /\ BID_HOLD \in Range(get_legal_actions) =>
              /\ current_player_id = dealer_id
              /\ highest_bidder # None
              /\ \E s \in Seats : bids[s] \in {BID_20, BID_25, BID_30}
        /\ (current_player_id = dealer_id /\ ~passed[dealer_id] /\ highest_bidder # None)
              => BID_HOLD \in Range(get_legal_actions)

\* Hold is on offer
C6_Witness == phase = PHASE_AUCTION /\ BID_HOLD \in Range(get_legal_actions)

\* an auction step with the given action: step() sets last_action
AuctionAction(a) == phase = PHASE_AUCTION /\ last_action' = a

\* C7 as claimed: once the dealer has played Hold, the dealer is the highest
\* bidder at the unchanged bid and is the seat that declares trump in that hand.
C7_HoldWinsAuction ==
    /\ (dealer_held /\ phase = PHASE_AUCTION /\ last_action = BID_HOLD) =>
           highest_bidder = dealer_id
    /\ (dealer_held /\ phase \in {PHASE_DECLARATION, PHASE_DISCARD, PHASE_GAMEPLAY}) =>
           highest_bidder = dealer_id

\* C7 as amended: a Hold makes the dealer the highest bidder at the unchanged
\* bid and does not end the auction; while the dealer stands as highest bidder
\* a pass leaves it so, and when the auction then ends the dealer declares.
C7_HoldTakesBid ==
    /\ [][AuctionAction(BID_HOLD) =>
            /\ highest_bidder' = dealer_id
            /\ highest_bid' = highest_bid
            /\ highest_bid' # None
            /\ bids'[dealer_id] = highest_bid
            /\ passed' = passed
            /\ phase' = PHASE_AUCTION]_vars
    /\ [][(AuctionAction(BID_PASS) /\ dealer_held /\ highest_bidder = dealer_id) =>
            /\ highest_bidder' = dealer_id
            /\ highest_bid' = highest_bid
            /\ (phase' = PHASE_DECLARATION => current_player_id' = dealer_id)]_vars

\* the dealer declares after having held
C7_Witness == phase = PHASE_DECLARATION /\ dealer_held /\ current_player_id = dealer_id

\* C8: an auction step ends the auction with a winner exactly when it leaves
\* three seats passed and a highest bidder; then the phase is Declaration, the
\* acting seat is the highest bidder, and it is the one seat that has not passed.
C8_AuctionEnd ==
    [][phase = PHASE_AUCTION =>
         /\ (phase' = PHASE_DECLARATION) <=>
                (NumPassed(passed') = 3 /\ highest_bidder' # None)
         /\ phase' = PHASE_DECLARATION =>
                /\ current_player_id' = highest_bidder'
                /\ \A s \in Seats : passed'[s] <=> (s # highest_bidder')]_vars

\* the auction has just ended on a pass, after more than one bid
C8_Witness ==
    /\ phase = PHASE_DECLARATION
    /\ last_action = BID_PASS
    /\ Cardinality({s \in Seats : bids[s] \in {BID_20, BID_25, BID_30}}) >= 2

\* the cards of a fresh deal: 5 per seat, 3 in the kitty, 29 left, 52 distinct
FreshDeal(hs, pt, dk) ==
    LET all == hs[0] \o hs[1] \o hs[2] \o hs[3] \o pt \o dk
    IN  /\ \A s \in Seats : Len(hs[s]) = 5
        /\ Len(pt) = 3
        /\ Len(dk) = 29
        /\ Range(all) = 0 .. 51

\* C9: when the fourth seat passes and no bid was made, the hand is re-dealt:
\* a fresh deal, passed flags and bids cleared, no highest bidder or bid, the
\* phase Auction, and no change of the game points.
C9_AllPassRedeal ==
    [][(AuctionAction(BID_PASS) /\ highest_bidder = None
        /\ \A s \in Seats : s # current_player_id => passed[s]) =>
         /\ FreshDeal(hands', pot', deck')
         /\ \A s \in Seats : ~passed'[s] /\ bids'[s] = None
         /\ highest_bidder' = None
         /\ highest_bid' = None
         /\ phase' = PHASE_AUCTION
         /\ points' = points]_vars

\* the state after an all-pass redeal
C9_Witness ==
    /\ phase = PHASE_AUCTION
    /\ last_action = BID_PASS
    /\ dealer_id = 1
    /\ bid_made = "absent"
    /\ NumPassed(passed) = 0
    /\ \A s \in Seats : bids[s] = None

\* C10: in the Auction the acting seat has not passed, and a seat that has
\* passed does not become the highest bidder.
C10_PassedSeatOut ==
    /\ [](phase = PHASE_AUCTION => ~passed[current_player_id])
    /\ [][(phase = PHASE_AUCTION /\ highest_bidder' # highest_bidder
           /\ highest_bidder' # None) => ~passed[highest_bidder']]_vars

\* C11: every auction ends after a bounded number of legal actions; four
\* passes without a bid end it on the fourth action of the auction, and with a
\* bid standing the action that makes the third seat pass ends it at once.
C11_AuctionTerminates ==
    /\ [](auction_len <= 15)
    /\ [][(AuctionAction(BID_PASS) /\ highest_bidder = None
           /\ \A s \in Seats : s # current_player_id => passed[s]) =>
            (auction_len = 3 /\ auction_len' = 0 /\ dealer_id' # dealer_id)]_vars
    /\ [][(AuctionAction(BID_PASS) /\ highest_bidder # None
           /\ ~passed[current_player_id] /\ NumPassed(passed) = 2) =>
            phase' = PHASE_DECLARATION]_vars

\* the longest auction: the dealer has held three times and it ended on a pass
C11_Witness == phase = PHASE_DECLARATION /\ auction_len = 15 /\ last_action = BID_PASS

C13_DeclaredSuitIsTrump ==
    /\ [][phase = PHASE_DECLARATION => trump_suit' = SUITS[last_action' + 1]]_vars
    /\ [](phase = PHASE_GAMEPLAY => trump_suit \in Range(SUITS))

\* C14: a declaration moves the three kitty cards into the auction winner's
\* hand, which then holds 8 cards, empties the kitty, sets the phase to Discard
\* and the acting seat to the seat after the dealer; the kitty changes at no
\* other step of a hand.
C14_KittyToWinner ==
    /\ [][phase = PHASE_DECLARATION =>
            /\ Len(pot) = 3
            /\ hands' = [hands EXCEPT ![highest_bidder] = @ \o pot]
            /\ Len(hands'[highest_bidder]) = 8
            /\ pot' = <<>>
            /\ phase' = PHASE_DISCARD
            /\ current_player_id' = (dealer_id + 1) % num_players]_vars
    /\ [][pot' # pot => (phase = PHASE_DECLARATION \/ dealer_id' # dealer_id)]_vars

\* just after a declaration by a winner that is not the seat after the dealer
C14_Witness ==
    /\ phase = PHASE_DISCARD
    /\ discard_pile = <<>>
    /\ pot = <<>>
    /\ Len(hands[highest_bidder]) = 8
    /\ current_player_id # highest_bidder

\* C15: in the Discard phase the auction winner holding more than 5 cards is
\* offered only discards by position, and 'done' as well once it holds 5 or
\* fewer; any other seat is offered 'done' at every hand size.
C15_DoneOffered ==
    phase = PHASE_DISCARD =>
        LET hand_size == Len(hands[current_player_id])
        IN  /\ Range(get_legal_actions) \ {DISCARD_DONE} = 0 .. (hand_size - 1)
            /\ (DISCARD_DONE \in Range(get_legal_actions)) <=>
                   (current_player_id # highest_bidder \/ hand_size <= 5)

\* the auction winner has discarded down to 5 cards and may now be done
C15_Witness ==
    /\ phase = PHASE_DISCARD
    /\ current_player_id = highest_bidder
    /\ Len(hands[current_player_id]) = 5
    /\ Len(discard_pile) >= 3
    /\ DISCARD_DONE \in Range(get_legal_actions)

\* C16: in the Discard phase the turn stays with the acting seat until it
\* signals 'done' and then passes to the next seat in seating order; the done
\* of the fourth seat, the dealer, makes the phase Gameplay with the seat after
\* the auction winner as trick leader and acting seat.
C16_DiscardTurns ==
    /\ [][(phase = PHASE_DISCARD /\ last_action' # DISCARD_DONE) =>
            (phase' = PHASE_DISCARD /\ current_player_id' = current_player_id)]_vars
    /\ [][(phase = PHASE_DISCARD /\ last_action' = DISCARD_DONE
           /\ current_player_id # dealer_id) =>
            /\ phase' = PHASE_DISCARD
            /\ current_player_id' = (current_player_id + 1) % num_players]_vars
    /\ [][(phase = PHASE_DISCARD /\ last_action' = DISCARD_DONE
           /\ current_player_id = dealer_id) =>
            /\ phase' = PHASE_GAMEPLAY
            /\ trick_starter' = (highest_bidder + 1) % num_players
            /\ current_player_id' = trick_starter']_vars

\* Gameplay has just begun and the leader is not the seat that discarded first
C16_Witness ==
    /\ phase = PHASE_GAMEPLAY
    /\ last_action = DISCARD_DONE
    /\ trick_starter = current_player_id
    /\ current_player_id # (dealer_id + 1) % num_players

\* C17: when the phase becomes Gameplay every seat holds exactly 5 cards: each
\* hand below 5 was filled from the deck, which held enough cards for all of
\* them whatever the seats had discarded.
C17_FiveCardsAtGameplay ==
    /\ [][(phase = PHASE_DISCARD /\ phase' = PHASE_GAMEPLAY) =>
            /\ \A s \in Seats : Len(hands'[s]) = 5
            /\ \A s \in Seats : Len(hands[s]) <= 5
            /\ Len(deck') = Len(deck) - (20 - (Len(hands[0]) + Len(hands[1])
                                               + Len(hands[2]) + Len(hands[3])))]_vars
    /\ [](phase = PHASE_DISCARD => Len(deck) = 29)

\* Gameplay begins after every seat discarded its whole hand
C17_Witness ==
    /\ phase = PHASE_GAMEPLAY
    /\ last_action = DISCARD_DONE
    /\ Len(discard_pile) = 23
    /\ Len(deck) = 9
    /\ \A s \in Seats : Len(hands[s]) = 5

\* the follower's view of a trick in normal mode: its hand positions, those of
\* its trump cards (trump suit or Ace of Hearts) and of its lead-suit cards
Following == phase = PHASE_GAMEPLAY /\ current_player_id # trick_starter
             /\ current_trick[trick_starter] # None
HandPositions == 0 .. (Len(hands[current_player_id]) - 1)
TrumpPositions ==
    {i \in HandPositions :
        LET c == hands[current_player_id][i + 1]
        IN  suit(c) = trump_suit \/ IsAceOfHearts(c)}
LeadPositions ==
    {i \in HandPositions : suit(hands[current_player_id][i + 1]) = trick_lead_suit}
HighTrumpLed ==
    LET c == current_trick[trick_starter]
    IN  /\ suit(c) = trump_suit
        /\ (rank(c) \in {"5", "J"} \/ IsAceOfHearts(c))

\* C18: when the trump suit is led by a high trump (5 or J of trump, or the Ace
\* of Hearts with Hearts trump), a follower holding a trump card may play
\* exactly its trump cards, and a follower holding none may play any card.
C18_HighTrumpLed ==
    (Following /\ trick_lead_suit = trump_suit /\ HighTrumpLed) =>
        Range(get_legal_actions) =
            IF TrumpPositions # {} THEN TrumpPositions ELSE HandPositions

\* a high trump is led and the follower holds both trumps and other cards
C18_Witness ==
    /\ Following /\ trick_lead_suit = trump_suit /\ HighTrumpLed
    /\ TrumpPositions # {}
    /\ TrumpPositions # HandPositions

\* C19: when the trump suit is led by a low trump (a card of the trump suit
\* that is not the 5, the J or the Ace of Hearts), every card of the follower's
\* hand is a legal play, whether or not the follower holds trumps.
C19_LowTrumpLed ==
    (Following /\ trick_lead_suit = trump_suit /\ ~HighTrumpLed) =>
        Range(get_legal_actions) = HandPositions

\* a low trump is led and the follower holds a low trump, a high trump and
\* a card that is no trump
C19_Witness ==
    /\ Following /\ trick_lead_suit = trump_suit /\ ~HighTrumpLed
    /\ TrumpPositions # HandPositions
    /\ \E i, j \in TrumpPositions :
          LET ci == hands[current_player_id][i + 1]
              cj == hands[current_player_id][j + 1]
          IN  /\ (rank(ci) \in {"5", "J"} \/ IsAceOfHearts(ci))
              /\ ~(rank(cj) \in {"5", "J"} \/ IsAceOfHearts(cj))

C21_VoidPlaysAnyCard ==
    (Following /\ trick_lead_suit # trump_suit /\ LeadPositions = {}) =>
        Range(get_legal_actions) = HandPositions

\* The step that plays the fourth card of a trick, and the trick it completes.
TrickCompletes ==
    /\ phase = PHASE_GAMEPLAY
    /\ Cardinality({s \in Seats : current_trick[s] # None}) = num_players - 1
    /\ current_trick[current_player_id] = None
    /\ last_action' \in HandPositions
    /\ raised' = "none"
CompletedTrick ==
    [current_trick EXCEPT ![current_player_id] =
        hands[current_player_id][last_action' + 1]]
TrumpSeats(trick) ==
    {s \in Seats : suit(trick[s]) = trump_suit \/ IsAceOfHearts(trick[s])}

\* C22: a completed trick that holds at least one trump card (a card of the
\* trump suit or the Ace of Hearts) is won by the seat that played the trump
\* of highest strength, whatever the lead suit and whoever led.
C22_HighestTrumpWins ==
    [][(TrickCompletes /\ TrumpSeats(CompletedTrick) # {}) =>
          /\ trick_winner' \in TrumpSeats(CompletedTrick)
          /\ \A s \in TrumpSeats(CompletedTrick) :
                 get_card_rank(CompletedTrick[trick_winner'], trump_suit)
                     >= get_card_rank(CompletedTrick[s], trump_suit)]_vars

\* a first trick led with a non-trump card by a seat other than 0, holding
\* two trumps or more, one of them the Ace of Hearts, and won by a trump
C22_Witness ==
    /\ Len(trick_history) >= 1
    /\ Cardinality(TrumpSeats(trick_history[1])) >= 2
    /\ \E s \in TrumpSeats(trick_history[1]) :
           s # trick_winners[1] /\ IsAceOfHearts(trick_history[1][s])
    /\ first_trick_starter # 0
    /\ first_trick_starter \notin TrumpSeats(trick_history[1])
    /\ trick_winners[1] \in TrumpSeats(trick_history[1])

\* the seat that led the trick being completed, and the seats that followed
\* its suit
LeadSuitSeats(trick) ==
    {s \in Seats : suit(trick[s]) = suit(trick[trick_starter])}

\* C23: a completed trick that holds no trump card is won by the seat that
\* played the strongest card of the lead suit - the suit of the card played
\* by the seat that led - for every leading seat; an off-lead card never wins.
C23_StrongestLeadSuitWins ==
    [][(TrickCompletes /\ TrumpSeats(CompletedTrick) = {}) =>
          /\ trick_winner' \in LeadSuitSeats(CompletedTrick)
          /\ \A s \in LeadSuitSeats(CompletedTrick) :
                 get_card_rank(CompletedTrick[trick_winner'], trump_suit)
                     >= get_card_rank(CompletedTrick[s], trump_suit)]_vars

\* the card of a given suit and rank (card.py: FortyfivesCard.__init__)
CardOf(s, r) ==
    13 * ((CHOOSE i \in 1 .. 4 : SUITS[i] = s) - 1)
        + (CHOOSE j \in 1 .. 13 : RANKS[j] = r) - 1
TrumpCards(trump) == {c \in 0 .. 51 : suit(c) = trump \/ IsAceOfHearts(c)}

\* the trump cards of a suit, strongest first, as the order is described
TrumpOrder(trump) ==
    <<CardOf(trump, "5"), CardOf(trump, "J"), CardOf("H", "A")>>
    \o (IF trump = "H" THEN <<>> ELSE <<CardOf(trump, "A")>>)
    \o <<CardOf(trump, "K"), CardOf(trump, "Q")>>
    \o [i \in 1 .. 8 |->
           CardOf(trump,
                  IF is_red_suit(trump)
                  THEN <<"T", "9", "8", "7", "6", "4", "3", "2">>[i]
                  ELSE <<"2", "3", "4", "6", "7", "8", "9", "T">>[i])]

\* whether the described order holds for a trump suit: it lists every trump
\* card, its strengths decrease strictly, and no two trump cards tie
TrumpOrderHolds(trump) ==
    LET order == TrumpOrder(trump)
        strength == [i \in 1 .. Len(order) |-> get_card_rank(order[i], trump)]
    IN  /\ Range(order) = TrumpCards(trump)
        /\ \A i \in 1 .. (Len(order) - 1) : strength[i] > strength[i + 1]
        /\ \A i, j \in 1 .. Len(order) :
               order[i] # order[j] => strength[i] # strength[j]
TrumpOrderTable == [trump \in Range(SUITS) |-> TrumpOrderHolds(trump)]

\* C24: for every trump suit the trump strengths are strictly ordered
\* 5 > J > Ace of Hearts > Ace of trump > K > Q > the remaining ranks, which
\* run 10 > 9 > 8 > 7 > 6 > 4 > 3 > 2 in a red trump suit and
\* 2 > 3 > 4 > 6 > 7 > 8 > 9 > 10 in a black one; the order covers every trump
\* card, so all trump strengths are pairwise distinct.  Stated for the trump
\* suit in force, which ranges over the four suits.
C24_TrumpOrder ==
    trump_suit \in Range(SUITS) => TrumpOrderTable[trump_suit]

\* a first trick in a black trump suit that holds two low trumps and is won
\* by the one of lower face value, which is the stronger there
C24_Witness ==
    /\ Len(trick_history) >= 1
    /\ ~is_red_suit(trump_suit)
    /\ \E s \in Seats \ {trick_winners[1]} :
           LET w == trick_history[1][trick_winners[1]]
               c == trick_history[1][s]
               low == {"2", "3", "4", "6", "7", "8", "9", "T"}
           IN  /\ suit(w) = trump_suit /\ suit(c) = trump_suit
               /\ rank(w) \in low /\ rank(c) \in low
               /\ w % 13 < c % 13

\* whether every trump card of a suit outranks every card that is not trump
TrumpAboveRest(trump) ==
    \A c1 \in TrumpCards(trump), c2 \in (0 .. 51) \ TrumpCards(trump) :
        get_card_rank(c1, trump) > get_card_rank(c2, trump)
TrumpAboveRestTable == [trump \in Range(SUITS) |-> TrumpAboveRest(trump)]

\* C25: for every trump suit, every trump card (a card of the trump suit or
\* the Ace of Hearts) has strictly greater strength than every non-trump card.
\* Stated for the trump suit in force, which ranges over the four suits.
C25_TrumpAboveRest ==
    trump_suit \in Range(SUITS) => TrumpAboveRestTable[trump_suit]

\* a first trick won by a low trump against a King, Queen or Jack of a
\* plain suit
C25_Witness ==
    /\ Len(trick_history) >= 1
    /\ LET w == trick_history[1][trick_winners[1]]
       IN  /\ suit(w) = trump_suit
           /\ rank(w) \in {"2", "3", "4", "6", "7", "8", "9", "T"}
    /\ \E s \in Seats :
           /\ s \notin TrumpSeats(trick_history[1])
           /\ rank(trick_history[1][s]) \in {"K", "Q", "J"}

-----------------------------------------------------------------------------
\* Scoring of a completed hand.  The scoring tests take a fresh game, assign
\* the fields a played hand leaves behind (trump_suit, tricks_won,
\* highest_trump_player, highest_trump_played, highest_bid, highest_bidder and
\* the running points) and call end_hand(), which scores the hand itself
\* (tests/test_trick_winning_and_scoring.py, test_highest_trump_scoring).

\* the ways five tricks fall to the four seats
TrickSplits == {w \in [Seats -> 0 .. num_cards_per_player] :
                    w[0] + w[1] + w[2] + w[3] = num_cards_per_player}

\* game totals of a partnership before the hand: behind, level, close to and
\* at the 100 mark
StartPoints == {0 - 20, 0, 90, 100}

InitScore(k, won, trump_player, bidder, bid, ns, ew) ==
    LET d == NewDeal(k)
    IN  /\ phase = PHASE_AUCTION
        /\ dealer_id = 0
        /\ auction_starting_player = 1
        /\ current_player_id = 1
        /\ bids = [s \in Seats |-> 0]
        /\ highest_bidder = bidder
        /\ highest_bid = bid
        /\ passed = [s \in Seats |-> FALSE]
        /\ trump_suit = "H"
        /\ hands = d.hands
        /\ deck = d.deck
        /\ pot = d.pot
        /\ discard_pile = <<>>
        /\ current_trick = EmptyTrick
        /\ trick_lead_suit = NoSuit
        /\ trick_winner = None
        /\ tricks_won = won
        /\ trick_count = 0
        /\ trick_starter = None
        \* the 5 of Hearts, when a highest trump is on record
        /\ highest_trump_played = IF trump_player = None THEN None ELSE 16
        /\ highest_trump_player = trump_player
        /\ trick_history = <<>>
        /\ trick_winners = <<>>
        /\ points = [s \in Seats |-> IF s % 2 = 0 THEN ns ELSE ew]
        /\ hand_points = <<0, 0>>
        /\ bid_made = "absent"
        /\ last_action = None
        /\ last_legal = TRUE
        /\ raised = "none"
        /\ dealer_held = FALSE
        /\ auction_len = 0

InitScoring ==
    /\ \E won \in TrickSplits, trump_player \in Seats \cup {None},
          bidder \in Seats, bid \in {BID_20, BID_25, BID_30},
          ns \in StartPoints, ew \in StartPoints :
           InitScore(1, won, trump_player, bidder, bid, ns, ew)
    /\ policy \in 1 .. NumPolicies

\* end_hand() called on a hand that has not been scored yet
end_hand_call ==
    LET hp   == score_hand(tricks_won, highest_trump_player)
        made == BidMade(hp, highest_bidder, highest_bid)
    IN  /\ bid_made = "absent"
        /\ hand_points' = hp
        /\ bid_made' = IF made THEN "True" ELSE "False"
        /\ points' = end_hand(points, hp, highest_bidder, highest_bid, made)
        /\ highest_trump_played' = None
        /\ highest_trump_player' = None
        /\ UNCHANGED <<phase, dealer_id, auction_starting_player, current_player_id,
                       bids, highest_bidder, highest_bid, passed, trump_suit, hands,
                       deck, pot, discard_pile, current_trick, trick_lead_suit,
                       trick_winner, tricks_won, trick_count, trick_starter,
                       trick_history, trick_winners, last_action, last_legal,
                       raised, dealer_held, auction_len, policy>>

NextScore == end_hand_call

SpecScore == InitScoring /\ [][NextScore]_vars

\* the raw hand points of the two partnerships for the hand being scored
RawPoints(side) ==
    5 * (tricks_won[side] + tricks_won[side + 2])
        + (IF highest_trump_player # None /\ highest_trump_player % 2 = side
           THEN 5 ELSE 0)
HandScored == bid_made = "absent" /\ bid_made' # "absent"

\* C26: when a hand is scored, the hand points of each partnership are 5 times
\* the tricks won by its two seats, plus 5 for the partnership of the seat on
\* record as having played the highest trump, whether or not the bid was made.
C26_RawHandPoints ==
    [][HandScored => hand_points' = <<RawPoints(0), RawPoints(1)>>]_vars

\* a scored hand whose bid failed, with the bonus on the bidding side: the
\* bidders keep their raw points on record
C26_Witness ==
    /\ bid_made = "False"
    /\ hand_points[(highest_bidder % 2) + 1] \in {5, 10, 15, 20, 25}
    /\ hand_points[1] + hand_points[2] = 30
    /\ hand_points[(highest_bidder % 2) + 1] % 10 = 0
           <=> (tricks_won[highest_bidder] + tricks_won[(highest_bidder + 2) % 4]) % 2 = 1

\* The suit a declaration names: trump_suit itself when it is a suit string,
\* SUIT_MAP of the stored action number otherwise.
DeclaredSuit ==
    IF trump_suit \in Range(SUITS) THEN trump_suit
    ELSE SUITS[CHOOSE i \in 1 .. 4 : IntRepr[i] = trump_suit]

\* the step that plays the last card of the fifth trick, the <<seat, card>>
\* pairs played in the hand it ends, and the trumps among them
HandCompletes == TrickCompletes /\ trick_count = num_cards_per_player - 1
PlayedInHand ==
    {<<s, trick_history[n][s]>> : s \in Seats, n \in 1 .. Len(trick_history)}
        \cup {<<s, CompletedTrick[s]>> : s \in Seats}
PlayedTrumps ==
    {p \in PlayedInHand : suit(p[2]) = DeclaredSuit \/ IsAceOfHearts(p[2])}
StrongestTrumpSeat ==
    (CHOOSE p \in PlayedTrumps :
        \A q \in PlayedTrumps :
            get_card_rank(p[2], DeclaredSuit) >= get_card_rank(q[2], DeclaredSuit))[1]
\* raw points of a partnership when the bonus goes to the strongest trump played
RawPointsPlayed(side) ==
    5 * (tricks_won[side] + tricks_won[side + 2]
           + (IF trick_winner' % 2 = side THEN 1 ELSE 0))
      + (IF PlayedTrumps # {} /\ StrongestTrumpSeat % 2 = side THEN 5 ELSE 0)

\* C27: in a hand played through step() the highest-trump bonus goes to the
\* seat that played the strongest trump card (a card of the declared suit or
\* the Ace of Hearts) of the hand, and to nobody only if no trump was played:
\* the side that did not bid is credited its tricks plus that bonus, and the
\* bid counts as made exactly when the bidders' tricks plus that bonus reach it.
C27_BonusToStrongestTrump ==
    [][HandCompletes =>
          LET bidders == highest_bidder % 2
              others  == 1 - bidders
          IN  /\ points'[others] - points[others] = RawPointsPlayed(others)
              /\ bid_made' = "True"
                     <=> RawPointsPlayed(bidders) >= BID_VALUES(highest_bid)]_vars

\* the partnership (0 or 1) of the auction winner and the other one
Bidders == highest_bidder % 2
Defenders == 1 - (highest_bidder % 2)

\* C28: when the bidding partnership's raw hand points are below its bid
\* value, its game total changes by exactly minus the bid value, and the other
\* partnership's game total grows by its own raw hand points.
C28_FailedBidPenalty ==
    [][(HandScored /\ RawPoints(Bidders) < BID_VALUES(highest_bid)) =>
          /\ points'[Bidders] - points[Bidders] = 0 - BID_VALUES(highest_bid)
          /\ points'[Defenders] - points[Defenders] = RawPoints(Defenders)
          /\ points'[Bidders + 2] = points'[Bidders]
          /\ points'[Defenders + 2] = points'[Defenders]]_vars

\* a bid of 25 that failed with 20 raw points: the bidders fall from 100 to
\* 75, the other side rises from 0 to 10
C28_Witness ==
    /\ bid_made = "False"
    /\ highest_bid = BID_25
    /\ hand_points[Bidders + 1] = 20
    /\ hand_points[Defenders + 1] = 10
    /\ points[Bidders] = 75
    /\ points[Defenders] = 10

\* C29: when a bid of 20 or 25 is made and the opposing partnership's total
\* before the hand is below 100, each partnership's game total grows by
\* exactly its raw hand points.
C29_MadeBidScores ==
    [][(/\ HandScored
        /\ highest_bid \in {BID_20, BID_25}
        /\ RawPoints(Bidders) >= BID_VALUES(highest_bid)
        /\ points[Defenders] < 100) =>
          /\ points'[Bidders] - points[Bidders] = RawPoints(Bidders)
          /\ points'[Defenders] - points[Defenders] = RawPoints(Defenders)
          /\ points'[Bidders + 2] = points'[Bidders]
          /\ points'[Defenders + 2] = points'[Defenders]]_vars

\* a bid of 20 made with 25 raw points from 90, the other side taking 5
\* from 90
C29_Witness ==
    /\ bid_made = "True"
    /\ highest_bid = BID_20
    /\ hand_points[Bidders + 1] = 25
    /\ hand_points[Defenders + 1] = 5
    /\ points[Bidders] = 115
    /\ points[Defenders] = 95

\* C30: thirty for sixty - a partnership that bid 30 and earned 30 raw hand
\* points gains 60 game points, while its raw hand points stay 30.
C30_ThirtyForSixty ==
    [][(HandScored /\ highest_bid = BID_30 /\ RawPoints(Bidders) = 30) =>
          /\ points'[Bidders] - points[Bidders] = 60
          /\ hand_points'[Bidders + 1] = 30]_vars

\* C31: a partnership that did not bid and already stands at 100 or more gains
\* nothing from a hand in which the bidders make their bid, and gains its raw
\* hand points only in a hand in which the bidders fail.
C31_PeggingRestriction ==
    [][(HandScored /\ points[Defenders] >= 100) =>
          points'[Defenders] - points[Defenders] =
              IF RawPoints(Bidders) >= BID_VALUES(highest_bid)
              THEN 0
              ELSE RawPoints(Defenders)]_vars

\* C32: in every reachable state the two seats of a partnership show the same
\* game total.
C32_PartnersInSync ==
    points[0] = points[2] /\ points[1] = points[3]

\* a hand has been scored and left the two partnerships on different totals
C32_Witness ==
    /\ bid_made # "absent"
    /\ points[0] # points[1]
    /\ points[0] = points[2] /\ points[1] = points[3]
    /\ \E s \in Seats : points[s] > 0

-----------------------------------------------------------------------------
\* The end of a hand late in a game.  A Gameplay state set up as the tests do
\* (trump_suit a suit string, a seat about to lead the first trick), with the
\* partnerships' running totals assigned as the scoring tests assign them.
\* The hand is played to its fifth trick with the play the policy picks; if
\* that ends the game, step() keeps being called with arbitrary actions.

\* running totals of a partnership before the hand
LatePoints == {0, 100, 120}

InitLate(k, trump, leader, ns, ew) ==
    LET d == deal_cards(shuffle(init_deck, k), num_players, num_cards_per_player)
        winner == (leader + num_players - 1) % num_players
    IN  /\ phase = PHASE_GAMEPLAY
        /\ dealer_id = 0
        /\ auction_starting_player = 1
        /\ current_player_id = leader
        /\ bids = [s \in Seats |-> IF s = winner THEN BID_20 ELSE 0]
        /\ highest_bidder = winner
        /\ highest_bid = BID_20
        /\ passed = [s \in Seats |-> s # winner]
        /\ trump_suit = trump
        /\ hands = d.hands
        /\ deck = d.deck
        /\ pot = d.pot
        /\ discard_pile = <<>>
        /\ current_trick = EmptyTrick
        /\ trick_lead_suit = NoSuit
        /\ trick_winner = None
        /\ tricks_won = [s \in Seats |-> 0]
        /\ trick_count = 0
        /\ trick_starter = leader
        /\ highest_trump_played = None
        /\ highest_trump_player = None
        /\ trick_history = <<>>
        /\ trick_winners = <<>>
        /\ points = [s \in Seats |-> IF s % 2 = 0 THEN ns ELSE ew]
        /\ hand_points = <<0, 0>>
        /\ bid_made = "absent"
        /\ last_action = None
        /\ last_legal = TRUE
        /\ raised = "none"
        /\ dealer_held = FALSE
        /\ auction_len = 0

InitLateGame ==
    /\ \E k \in 1 .. NumShuffles, trump \in Range(SUITS), leader \in Seats,
          ns \in LatePoints, ew \in LatePoints :
           InitLate(k, trump, leader, ns, ew)
    /\ policy \in 1 .. NumPolicies

\* the hand in progress: the play the policy picks
HandPlayStep ==
    /\ phase = PHASE_GAMEPLAY /\ bid_made = "absent"
    /\ \E a \in PlayChoices : step(a)

\* step() called after the hand that ended the game, with any action
GameOverStep ==
    /\ bid_made # "absent" /\ check_game_over(points)
    /\ \E a \in LegalSet \cup ActionSample : step(a)

NextLate == HandPlayStep \/ GameOverStep

SpecLate == InitLateGame /\ [][NextLate]_vars

\* the hand-ending step scores the hand once: the side that did not bid is
\* credited its raw points a single time, and totals change in no other step
ScoredOnce ==
    /\ HandCompletes =>
          /\ bid_made = "absent" /\ bid_made' # "absent"
          /\ points'[Defenders] - points[Defenders] = RawPointsPlayed(Defenders)
    /\ points' # points => HandCompletes
\* a hand that ends with a total of 125 or more is followed by no new deal
NoDealAfterGameOver ==
    (HandCompletes /\ \E s \in Seats : points'[s] >= 125) =>
        /\ phase' = PHASE_GAMEPLAY
        /\ dealer_id' = dealer_id
        /\ \A s \in Seats : hands'[s] = <<>>
        /\ deck' = deck /\ pot' = pot

\* C33: after the fifth trick the hand is scored exactly once; if a total is
\* then at least 125 the game is over, no new hand is dealt and the game-over
\* query reports true; it reports true in no state with both totals below 125.
C33_GameOverAt125 ==
    /\ [][ScoredOnce]_vars
    /\ [][NoDealAfterGameOver]_vars
    /\ []((\E s \in Seats : points[s] >= 125) => (check_game_over(points) /\ is_over))
    /\ []((\A s \in Seats : points[s] < 125) => (~check_game_over(points) /\ ~is_over))

\* C34: when a hand is scored and no partnership has reached 125, a new hand
\* begins: the dealer advances by one seat, a fresh deck is dealt (5 cards per
\* seat, 3 in the kitty), the phase is Auction, trump suit, highest bid,
\* highest bidder, passed flags, trick count, tricks won and the current trick
\* are reset, and the game totals carry over.
C34_NewHandAfterScoring ==
    [][(HandCompletes /\ \A s \in Seats : points'[s] < 125) =>
          /\ dealer_id' = (dealer_id + 1) % num_players
          /\ FreshDeal(hands', pot', deck')
          /\ phase' = PHASE_AUCTION
          /\ trump_suit' = NoSuit
          /\ highest_bid' = None
          /\ highest_bidder' = None
          /\ \A s \in Seats : ~passed'[s]
          /\ trick_count' = 0
          /\ \A s \in Seats : tricks_won'[s] = 0
          /\ current_trick' = EmptyTrick
          /\ points'[Defenders] = points[Defenders] + RawPointsPlayed(Defenders)
          /\ points'[Bidders] \in {points[Bidders] + RawPointsPlayed(Bidders),
                                   points[Bidders] - BID_VALUES(highest_bid)}]_vars

\* a new hand dealt after a scored hand, with a total of 100 or more carried
\* into it
C34_Witness ==
    /\ bid_made # "absent"
    /\ phase = PHASE_AUCTION
    /\ dealer_id = 1
    /\ \E s \in Seats : points[s] >= 100 /\ points[s] < 125
    /\ \E s \in Seats : points[s] \notin LatePoints

\* C35: the done-discarding sentinel never coincides with a hand position:
\* every hand holds at most 8 cards, so every card-position action offered
\* lies in 0..7 and differs from DISCARD_DONE.
C35_SentinelApart ==
    /\ \A s \in Seats : Len(hands[s]) <= 8 /\ DISCARD_DONE >= Len(hands[s])
    /\ phase = PHASE_DISCARD => LegalSet \subseteq (0 .. 7) \cup {DISCARD_DONE}
    /\ phase = PHASE_GAMEPLAY => LegalSet \subseteq 0 .. 7

\* the auction winner holds its five cards and the kitty and is offered all
\* eight positions
C35_Witness ==
    /\ phase = PHASE_DISCARD
    /\ current_player_id = highest_bidder
    /\ Len(hands[current_player_id]) = 8
    /\ LegalSet = 0 .. 7

\* the seats that have played to the current trick
SeatsPlayed == {s \in Seats : current_trick[s] # None}

\* between plays fewer than four cards are on the table, they were played by
\* the leader and the seats after it in seating order, and the next seat in
\* that order is to act
TrickInOrder ==
    (phase = PHASE_GAMEPLAY /\ bid_made = "absent") =>
        /\ Cardinality(SeatsPlayed) < num_players
        /\ SeatsPlayed = {(trick_starter + i) % num_players :
                              i \in 0 .. (Cardinality(SeatsPlayed) - 1)}
        /\ current_player_id = (trick_starter + Cardinality(SeatsPlayed)) % num_players
\* a trick is resolved by the fourth card and by no other play; it is recorded
\* with one card from each seat
ResolvedByFourthCard ==
    /\ (phase = PHASE_GAMEPLAY /\ ~TrickCompletes) =>
           /\ trick_count' = trick_count
           /\ trick_winners' = trick_winners
           /\ trick_history' = trick_history
           /\ tricks_won' = tricks_won
    /\ (TrickCompletes /\ ~HandCompletes) =>
           /\ trick_count' = trick_count + 1
           /\ trick_history' = Append(trick_history, CompletedTrick)
           /\ \A s \in Seats : CompletedTrick[s] # None
           /\ trick_winners' = Append(trick_winners, trick_winner')
           /\ trick_starter' = trick_winner'
           /\ current_player_id' = trick_winner'
           /\ current_trick' = EmptyTrick

\* C36: in Gameplay every trick consists of exactly one card from each of the
\* four seats, played in seating order from the trick leader; the trick is
\* resolved only when the fourth card is played, and then the winner is the
\* next trick's leader and the acting seat and the current trick is empty.
C36_TrickProtocol ==
    /\ []TrickInOrder
    /\ [][ResolvedByFourthCard]_vars

\* a second trick under way, led by the winner of the first, who is not the
\* seat that led the first
C36_Witness ==
    /\ phase = PHASE_GAMEPLAY
    /\ trick_count = 1
    /\ trick_starter = trick_winners[1]
    /\ trick_starter # first_trick_starter
    /\ Cardinality(SeatsPlayed) = 2

-----------------------------------------------------------------------------
\* Gameplay in strict-follow-suit mode: the suit-following tests set
\* test_strict_suit_following on a Gameplay state and ask for the legal plays
\* (tests/test_suit_following.py).  The first trick is explored with every
\* play that is legal in that mode, later tricks with the one the policy picks.

StrictFirstTrickStep ==
    /\ phase = PHASE_GAMEPLAY /\ trick_count = 0
    /\ \E a \in Range(get_legal_plays_strict) : step(a)

StrictLaterTrickStep ==
    /\ phase = PHASE_GAMEPLAY /\ trick_count > 0 /\ bid_made = "absent"
    /\ step(PolicyPick(get_legal_plays_strict, policy))

NextStrict == StrictFirstTrickStep \/ StrictLaterTrickStep

SpecStrict == InitGameplay /\ [][NextStrict]_vars

\* positions of the trump-suit cards in the acting hand, and of those other
\* than the 5 and the Jack
SuitTrumpPositions ==
    {i \in HandPositions : suit(hands[current_player_id][i + 1]) = trump_suit}
LowSuitTrumpPositions ==
    {i \in SuitTrumpPositions : rank(hands[current_player_id][i + 1]) \notin {"5", "J"}}
LowTrumpLed ==
    /\ trick_lead_suit = trump_suit
    /\ rank(current_trick[trick_starter]) \notin {"5", "J"}

\* C37: in strict-follow-suit mode the Ace of Hearts is not counted as trump;
\* when a low trump is led, a follower holding trump-suit cards other than the
\* 5 and J may play exactly those, and a follower whose only trump-suit cards
\* are the 5 and/or J (or who holds none, the Ace of Hearts not counting) may
\* play any card; when a non-trump suit is led, a follower holding the lead
\* suit may play only lead-suit cards.
C37_StrictMode ==
    /\ (Following /\ LowTrumpLed) =>
           Range(get_legal_plays_strict) =
               IF LowSuitTrumpPositions # {} THEN LowSuitTrumpPositions
               ELSE HandPositions
    /\ (Following /\ trick_lead_suit # trump_suit /\ LeadPositions # {}) =>
           Range(get_legal_plays_strict) = LeadPositions

\* a low trump is led to a follower that holds a low card of the trump suit,
\* the Ace of Hearts from another suit, and a card of neither kind
C37_Witness ==
    /\ Following /\ LowTrumpLed
    /\ trump_suit # "H"
    /\ LowSuitTrumpPositions # {}
    /\ \E i \in HandPositions : IsAceOfHearts(hands[current_player_id][i + 1])
    /\ Cardinality(HandPositions \ LowSuitTrumpPositions) >= 2

\* C38: during Gameplay the lead suit is unset exactly when the current trick
\* holds no card; otherwise it is the suit of the card in the trick leader's
\* slot, and it does not change while the remaining seats play to the trick.
C38_LeadSuit ==
    /\ [](phase = PHASE_GAMEPLAY =>
            /\ (trick_lead_suit = NoSuit) <=> (SeatsPlayed = {})
            /\ SeatsPlayed # {} =>
                   /\ current_trick[trick_starter] # None
                   /\ trick_lead_suit = suit(current_trick[trick_starter]))
    /\ [][(phase = PHASE_GAMEPLAY /\ SeatsPlayed # {} /\ ~TrickCompletes) =>
              trick_lead_suit' = trick_lead_suit]_vars

\* three cards on the table, one of them off the lead suit
C38_Witness ==
    /\ phase = PHASE_GAMEPLAY
    /\ Cardinality(SeatsPlayed) = 3
    /\ trick_lead_suit = suit(current_trick[trick_starter])
    /\ \E s \in SeatsPlayed : suit(current_trick[s]) # trick_lead_suit

\* C39: in every reachable state the trick counters agree - the tricks won by
\* the four seats add up to trick_count, which is the number of tricks in
\* trick_history and of entries in trick_winners - and trick_count is at most 5.
C39_TrickCounters ==
    /\ tricks_won[0] + tricks_won[1] + tricks_won[2] + tricks_won[3] = trick_count
    /\ trick_count = Len(trick_history)
    /\ trick_count = Len(trick_winners)
    /\ trick_count <= 5

\* the game has ended on the fifth trick and step() has been called again
C39_Witness ==
    /\ check_game_over(points)
    /\ trick_count = 5
    /\ Len(trick_history) = 5
    /\ current_player_id # trick_winner

\* C40: once a partnership has reached 125 after a hand's scoring, a further
\* step() with any action leaves both partnership totals, the phase, the hands
\* and the trick counters as they were, and scores no hand again.
C40_FrozenAfterGameOver ==
    [][(bid_made # "absent" /\ check_game_over(points)) =>
          /\ points' = points
          /\ phase' = phase
          /\ hands' = hands
          /\ trick_count' = trick_count
          /\ tricks_won' = tricks_won
          /\ trick_history' = trick_history
          /\ trick_winners' = trick_winners
          /\ hand_points' = hand_points
          /\ bid_made' = bid_made]_vars

\* the game is over and step() has since been called with an action that names
\* no card of a five-card hand
C40_Witness ==
    /\ bid_made # "absent" /\ check_game_over(points)
    /\ last_action \in {7, DISCARD_DONE}
    /\ current_player_id # trick_winner
    /\ \A s \in Seats : hands[s] = <<>>

====
